---- MODULE Spec2Model ----
(***************************************************************************)
(* Skill Lantern - hybrid career-matching engine.                          *)
(*                                                                         *)
(* State machine of the rule-based CareerMatcher, the MLPredictor adapter  *)
(* and the fusion step of the /predict route.                              *)
(*                                                                         *)
(* Number conventions.  Python floats are modelled by exact rationals      *)
(* <<n, d>> (d > 0); every round(x, p) of the source is the operator       *)
(* Round(x, 10^p), which yields the integer number of 10^-p units nearest  *)
(* to x.  Hence                                                            *)
(*   match_score, score_breakdown.*, rule_score, ml_score : hundredths     *)
(*   confidence                                           : ten-thousandths*)
(*   combined_score, probabilities, feature values        : rationals      *)
(* An exact half, which the float representation resolves one way or the   *)
(* other, is rounded to the even neighbour; the score values below are     *)
(* chosen so that no sub-score or match_score falls on one.                *)
(* Profile scores are whole percents, GPA and min_gpa are given in         *)
(* hundredths (370 is 3.70) and academic weights in hundredths (40 is      *)
(* 0.40); Dec turns them into rationals.                                   *)
(***************************************************************************)
EXTENDS Integers, Sequences, FiniteSets, TLC

\* TLC orders the fields of a record by the first occurrence of their names in
\* the module.  FieldNames numbers the names in alphabetical order and every record
\* below lists its fields in that order, so that each record is built in its
\* normal form and evaluation never has to reorder one in place.
FieldNames ==
    [ X |-> 1, academic |-> 2, academic_fit |-> 3, academic_level |-> 4,
      academic_subjects |-> 5, academic_weights |-> 6, adapter |-> 7, aligned |-> 8,
      analytical_thinking |-> 9, artifact |-> 10, breakdown |-> 11, call |-> 12,
      career |-> 13, career_id |-> 14, career_name |-> 15, careers |-> 16,
      catalog |-> 17, category |-> 18, certifications |-> 19, classes |-> 20,
      columns |-> 21, combined_score |-> 22, communication |-> 23, confidence |-> 24,
      current |-> 25, demand |-> 26, description |-> 27, df |-> 28, encoded |-> 29,
      engineering |-> 30, english |-> 31, english_score |-> 32, error |-> 33,
      exists |-> 34, explanation |-> 35, explanations |-> 36, feature_names |-> 37,
      features |-> 38, gap |-> 39, gaps |-> 40, gpa |-> 41, have |-> 42, high |-> 43,
      include_details |-> 44, interest_arts |-> 45, interest_business |-> 46,
      interest_education |-> 47, interest_engineering |-> 48,
      interest_finance |-> 49, interest_healthcare |-> 50,
      interest_helping_others |-> 51, interest_law |-> 52, interest_research |-> 53,
      interest_technology |-> 54, interests |-> 55, interests_fit |-> 56,
      items |-> 57, key |-> 58, kind |-> 59, label_encoder |-> 60, low |-> 61,
      match_score |-> 62, matching |-> 63, math |-> 64, math_score |-> 65,
      mean |-> 66, method_used |-> 67, min_gpa |-> 68, ml_based |-> 69,
      ml_results |-> 70, ml_score |-> 71, model |-> 72, model_data |-> 73,
      n_features |-> 74, n_features_in |-> 75, name |-> 76, names |-> 77,
      need |-> 78, nepal_info |-> 79, none |-> 80, ok |-> 81, op |-> 82,
      overall_match |-> 83, pc |-> 84, pending |-> 85, primary_subject |-> 86,
      problem_solving |-> 87, profile |-> 88, programming |-> 89, readable |-> 90,
      recommendations |-> 91, required |-> 92, required_interests |-> 93,
      required_skills |-> 94, ret |-> 95, rows |-> 96, rule_based |-> 97,
      rule_based_results |-> 98, rule_score |-> 99, scale |-> 100, scaler |-> 101,
      science |-> 102, science_score |-> 103, score |-> 104, score_breakdown |-> 105,
      shown |-> 106, skill |-> 107, skill_analytical_thinking |-> 108,
      skill_attention_to_detail |-> 109, skill_communication |-> 110,
      skill_creativity |-> 111, skill_dedication |-> 112, skill_empathy |-> 113,
      skill_integrity |-> 114, skill_leadership |-> 115, skill_patience |-> 116,
      skill_presentation |-> 117, skill_problem_solving |-> 118,
      skill_programming |-> 119, skill_project_management |-> 120,
      skill_stress_management |-> 121, skill_teamwork |-> 122,
      skill_technical_skills |-> 123, skill_time_management |-> 124, skills |-> 125,
      skills_fit |-> 126, some |-> 127, success |-> 128, summary |-> 129,
      technology |-> 130, threshold |-> 131, top_k |-> 132, total_matches |-> 133,
      use_ml_model |-> 134, user_profile |-> 135, value |-> 136, y_encoded |-> 137 ]

VARIABLES
    careers,        \* CareerMatcher.careers  (ordered mapping id -> definition)
    features,       \* CareerMatcher.features
    model,          \* MLPredictor.model          (None when no artifact loaded)
    label_encoder,  \* MLPredictor.label_encoder  (ordered class labels)
    feature_names,  \* MLPredictor.feature_names  (None or the feature schema)
    scaler,         \* MLPredictor.scaler         (None or a scaling transform)
    startup,        \* history: the catalog and adapter as left by startup
    call,           \* the operation being served, or served last, and its inputs
    ret,            \* Pending while call is being served, then what it returned
    requests        \* the route handlers in progress at once, each with its
                    \* request, position, local variables and response

vars == <<careers, features, model, label_encoder, feature_names, scaler,
          startup, call, ret, requests>>

\* F applied to the value of e, with e evaluated once
Bind(e, F(_)) == CHOOSE r \in {F(x) : x \in {e}} : TRUE

\* Python's None, and the wrapper of an optional value that is present
None == [none |-> TRUE]
Some(v) == [some |-> v]

\* ret while an operation is in progress, and once it has returned v
Pending == [pending |-> TRUE]
Returned(v) == [value |-> v]
Done == ret # Pending

-----------------------------------------------------------------------------
(* Bounds of the model *)

MaxTopK == 3          \* top_k ranges over 1..MaxTopK
MaxUserRating == 6    \* user ratings range over -1..MaxUserRating
MaxModelResults == 2  \* model result lists handed to combine_predictions
MaxConcurrent == 2    \* route handlers in progress at once

-----------------------------------------------------------------------------
(* Exact arithmetic standing for float arithmetic *)

Abs(n) == IF n < 0 THEN 0 - n ELSE n

RECURSIVE GCD(_, _)
GCD(a, b) == IF b = 0 THEN a ELSE GCD(b, a % b)

Rat(n, d) ==
    LET g == GCD(Abs(n), d)
    IN  IF n < 0 THEN <<0 - (Abs(n) \div g), d \div g>>
                 ELSE <<n \div g, d \div g>>

Int2Rat(n) == <<n, 1>>
Dec(h) == Rat(h, 100)

RAdd(a, b) == Rat(a[1] * b[2] + b[1] * a[2], a[2] * b[2])
RSub(a, b) == Rat(a[1] * b[2] - b[1] * a[2], a[2] * b[2])
RMul(a, b) == Rat(a[1] * b[1], a[2] * b[2])
RDiv(a, b) == IF b[1] < 0 THEN Rat((0 - a[1]) * b[2], a[2] * (0 - b[1]))
                          ELSE Rat(a[1] * b[2], a[2] * b[1])
RLe(a, b) == a[1] * b[2] <= b[1] * a[2]
RLt(a, b) == a[1] * b[2] < b[1] * a[2]
RMin(a, b) == IF RLe(a, b) THEN a ELSE b
RMax(a, b) == IF RLe(b, a) THEN a ELSE b

\* round(x, p) with scale = 10^p: nearest integer to x * scale, exact halves
\* go to the even neighbour.
Round(x, scale) ==
    LET n == Abs(x[1]) * scale
        q == n \div x[2]
        r == n % x[2]
        m == IF 2 * r > x[2] THEN q + 1
             ELSE IF 2 * r = x[2] THEN q + (q % 2)
             ELSE q
    IN  IF x[1] < 0 THEN 0 - m ELSE m

-----------------------------------------------------------------------------
(* Python dicts *)

\* d.get(k, default) on an unordered mapping (a function)
Get(d, k, default) == IF k \in DOMAIN d THEN d[k] ELSE default

\* An ordered mapping is a sequence of [key, value] entries with distinct keys.
Keys(od) == [i \in 1..Len(od) |-> od[i].key]
KeySet(od) == {od[i].key : i \in 1..Len(od)}
HasKey(od, k) == k \in KeySet(od)
Lookup(od, k) == od[CHOOSE i \in 1..Len(od) : od[i].key = k].value
ItemAt(od, k) == CHOOSE i \in 1..Len(od) : od[i].key = k

\* str.replace('_', ' ').title() on the names of the vocabulary
Title(s) ==
    CASE s = "programming" -> "Programming"
      [] s = "analytical_thinking" -> "Analytical Thinking"
      [] s = "problem_solving" -> "Problem Solving"
      [] s = "communication" -> "Communication"
      [] s = "technology" -> "Technology"
      [] s = "engineering" -> "Engineering"
      [] OTHER -> s

-----------------------------------------------------------------------------
(* The catalog *)

\* CareerMatcher._load_default_careers: the built-in single-career catalog
DefaultCareers ==
    << [key |-> "software_engineer",
        value |-> [academic_weights |-> [english |-> 30, math |-> 40, science |-> 30],
                   category |-> "Technology",
                   min_gpa |-> 300,
                   name |-> "Software Engineer",
                   required_interests |->
                       << [key |-> "technology", value |-> 4],
                          [key |-> "engineering", value |-> 3] >>,
                   required_skills |->
                       << [key |-> "programming", value |-> 4],
                          [key |-> "analytical_thinking", value |-> 4],
                          [key |-> "problem_solving", value |-> 4] >>]] >>

DefaultFeatures ==
    [interests |-> <<"technology", "engineering", "healthcare", "business", "arts">>,
     skills |-> <<"programming", "communication", "analytical_thinking", "problem_solving">>]

\* A catalog as CareerMatcher._load_careers reads it from careers.yaml: career
\* definitions with complete, over-weighted, partial and absent
\* academic_weights, with required ratings covering 1..5, with and without
\* requirements, min_gpa and nepal_info.
LoadedCareers ==
    << [key |-> "data_scientist",
        value |-> [academic_weights |-> [english |-> 30, math |-> 40, science |-> 30],
                   category |-> "Technology",
                   min_gpa |-> 300,
                   name |-> "Data Scientist",
                   nepal_info |-> [demand |-> "high"],
                   required_interests |-> << [key |-> "technology", value |-> 4] >>,
                   required_skills |->
                       << [key |-> "programming", value |-> 4],
                          [key |-> "analytical_thinking", value |-> 4] >>]],
       [key |-> "civil_engineer",
        value |-> [academic_weights |-> [english |-> 30, math |-> 50, science |-> 50],
                   category |-> "Engineering",
                   min_gpa |-> 250,
                   name |-> "Civil Engineer",
                   required_interests |->
                       << [key |-> "engineering", value |-> 4],
                          [key |-> "technology", value |-> 2] >>,
                   required_skills |->
                       << [key |-> "analytical_thinking", value |-> 3],
                          [key |-> "programming", value |-> 1],
                          [key |-> "problem_solving", value |-> 4] >>]],
       [key |-> "statistician",
        value |-> [academic_weights |-> [math |-> 60],
                   category |-> "Science",
                   min_gpa |-> 350,
                   name |-> "Statistician",
                   required_interests |-> << [key |-> "technology", value |-> 5] >>,
                   required_skills |->
                       << [key |-> "analytical_thinking", value |-> 5],
                          [key |-> "programming", value |-> 2] >>]],
       [key |-> "writer",
        value |-> [name |-> "Writer",
                   required_interests |-> << >>,
                   required_skills |-> << [key |-> "communication", value |-> 4] >>]],
       [key |-> "volunteer",
        value |-> [description |-> "Community volunteer"]] >>

LoadedFeatures ==
    [academic_subjects |-> <<"math", "science", "english">>,
     interests |-> <<"technology", "engineering">>,
     skills |-> <<"programming", "communication", "analytical_thinking", "problem_solving">>]

\* Career identifiers a request may name; "astronaut" is in no catalog.
CareerIds == KeySet(LoadedCareers) \cup KeySet(DefaultCareers) \cup {"astronaut"}

-----------------------------------------------------------------------------
(* CareerMatcher.calculate_match_score *)

DefaultWeights == [english |-> 34, math |-> 33, science |-> 33]

\* (score / 100) * weight * 30 for one subject
SubjectContribution(score, weight) ==
    RMul(RMul(RDiv(Int2Rat(score), Int2Rat(100)), Dec(weight)), Int2Rat(30))

\* variant of AcademicScore: the academic score counts only for a profile that
\* holds all three subject scores
AcademicScore_RequireAll(user_profile, career) ==
    LET weights == Get(career, "academic_weights", DefaultWeights)
    IN  IF {"math_score", "science_score", "english_score"} \subseteq DOMAIN user_profile
            THEN RAdd(RAdd(SubjectContribution(user_profile.math_score,
                                               Get(weights, "math", 33)),
                           SubjectContribution(user_profile.science_score,
                                               Get(weights, "science", 33))),
                      SubjectContribution(user_profile.english_score,
                                          Get(weights, "english", 34)))
            ELSE Int2Rat(0)

\* the unrounded academic_score
AcademicScore(user_profile, career) ==
    LET weights == Get(career, "academic_weights", DefaultWeights)
        math_contribution ==
            SubjectContribution(Get(user_profile, "math_score", 0), Get(weights, "math", 33))
        science_contribution ==
            SubjectContribution(Get(user_profile, "science_score", 0), Get(weights, "science", 33))
        english_contribution ==
            SubjectContribution(Get(user_profile, "english_score", 0), Get(weights, "english", 34))
    IN  RAdd(RAdd(math_contribution, science_contribution), english_contribution)

AcademicExplanation(academic_score) ==
    IF RLe(Int2Rat(24), academic_score)
        THEN [kind |-> "academic_strong", shown |-> Round(academic_score, 10)]
    ELSE IF RLe(Int2Rat(18), academic_score)
        THEN [kind |-> "academic_good", shown |-> Round(academic_score, 10)]
    ELSE [kind |-> "academic_improve", shown |-> Round(academic_score, 10)]

\* variant of SkillContribution: partial credit is not halved
SkillContribution_NotHalved(user_level, required_level, num_required) ==
    IF user_level >= required_level
        THEN RMul(RDiv(Int2Rat(user_level), Int2Rat(5)), RDiv(Int2Rat(40), Int2Rat(num_required)))
    ELSE IF user_level > 0
        THEN RMul(RDiv(Int2Rat(user_level), Int2Rat(required_level)),
                  RDiv(Int2Rat(40), Int2Rat(num_required)))
    ELSE Int2Rat(0)

\* variant of SkillContribution: partial credit is measured against 5, as
\* full credit is
SkillContribution_OverFive(user_level, required_level, num_required) ==
    IF user_level >= required_level
        THEN RMul(RDiv(Int2Rat(user_level), Int2Rat(5)), RDiv(Int2Rat(40), Int2Rat(num_required)))
    ELSE IF user_level > 0
        THEN RMul(RMul(RDiv(Int2Rat(user_level), Int2Rat(5)),
                       RDiv(Int2Rat(40), Int2Rat(num_required))),
                  Rat(1, 2))
    ELSE Int2Rat(0)

\* what one required skill adds to skill_score
SkillContribution(user_level, required_level, num_required) ==
    IF user_level >= required_level
        THEN RMul(RDiv(Int2Rat(user_level), Int2Rat(5)), RDiv(Int2Rat(40), Int2Rat(num_required)))
    ELSE IF user_level > 0
        THEN RMul(RMul(RDiv(Int2Rat(user_level), Int2Rat(required_level)),
                       RDiv(Int2Rat(40), Int2Rat(num_required))),
                  Rat(1, 2))
    ELSE Int2Rat(0)

\* skill_score after the first i required skills, in iteration order
RECURSIVE SkillScoreUpTo(_, _, _)
SkillScoreUpTo(required_skills, user_skills, i) ==
    IF i = 0 THEN Int2Rat(0)
    ELSE RAdd(SkillScoreUpTo(required_skills, user_skills, i - 1),
              SkillContribution(Get(user_skills, required_skills[i].key, 0),
                                required_skills[i].value,
                                Len(required_skills)))

SkillScore(user_profile, career) ==
    LET required_skills == Get(career, "required_skills", << >>)
        user_skills == Get(user_profile, "skills", << >>)
    IN  SkillScoreUpTo(required_skills, user_skills, Len(required_skills))

\* variant of SkillsSubScore: the cap of 40 is forgotten
SkillsSubScore_NoClamp(user_profile, career) ==
    Round(SkillScore(user_profile, career), 100)

\* scores['skills']
SkillsSubScore(user_profile, career) ==
    Round(RMin(SkillScore(user_profile, career), Int2Rat(40)), 100)

\* skill_matches / skill_gaps after the first i required skills
RECURSIVE SkillMatchesUpTo(_, _, _)
SkillMatchesUpTo(required_skills, user_skills, i) ==
    IF i = 0 THEN << >>
    ELSE LET user_level == Get(user_skills, required_skills[i].key, 0)
             rest == SkillMatchesUpTo(required_skills, user_skills, i - 1)
         IN  IF user_level >= required_skills[i].value
                 THEN Append(rest, [have |-> user_level, name |-> Title(required_skills[i].key)])
                 ELSE rest

RECURSIVE SkillGapsUpTo(_, _, _)
SkillGapsUpTo(required_skills, user_skills, i) ==
    IF i = 0 THEN << >>
    ELSE LET user_level == Get(user_skills, required_skills[i].key, 0)
             required_level == required_skills[i].value
             rest == SkillGapsUpTo(required_skills, user_skills, i - 1)
         IN  IF user_level >= required_level THEN rest
             ELSE IF user_level > 0
                 THEN Append(rest, [have |-> user_level,
                                    name |-> Title(required_skills[i].key), need |-> required_level])
             ELSE Append(rest, [name |-> Title(required_skills[i].key),
                                need |-> required_level])

SkillExplanations(user_profile, career) ==
    LET required_skills == Get(career, "required_skills", << >>)
        user_skills == Get(user_profile, "skills", << >>)
        skill_matches == SkillMatchesUpTo(required_skills, user_skills, Len(required_skills))
        skill_gaps == SkillGapsUpTo(required_skills, user_skills, Len(required_skills))
        first3 == SubSeq(skill_matches, 1, IF Len(skill_matches) < 3 THEN Len(skill_matches) ELSE 3)
    IN  (IF skill_matches # << >>
             THEN << [items |-> first3, kind |-> "matching_skills"] >> ELSE << >>)
        \o
        (IF skill_gaps # << >> /\ Len(skill_gaps) <= 2
             THEN << [items |-> skill_gaps, kind |-> "skills_to_develop"] >> ELSE << >>)

\* what one required interest adds to interest_score
InterestContribution(user_level, required_level, num_required) ==
    IF user_level >= required_level
        THEN RMul(RDiv(Int2Rat(user_level), Int2Rat(5)), RDiv(Int2Rat(30), Int2Rat(num_required)))
    ELSE IF user_level > 0
        THEN RMul(RMul(RDiv(Int2Rat(user_level), Int2Rat(required_level)),
                       RDiv(Int2Rat(30), Int2Rat(num_required))),
                  Rat(1, 2))
    ELSE Int2Rat(0)

RECURSIVE InterestScoreUpTo(_, _, _)
InterestScoreUpTo(required_interests, user_interests, i) ==
    IF i = 0 THEN Int2Rat(0)
    ELSE RAdd(InterestScoreUpTo(required_interests, user_interests, i - 1),
              InterestContribution(Get(user_interests, required_interests[i].key, 0),
                                   required_interests[i].value,
                                   Len(required_interests)))

InterestScore(user_profile, career) ==
    LET required_interests == Get(career, "required_interests", << >>)
        user_interests == Get(user_profile, "interests", << >>)
    IN  InterestScoreUpTo(required_interests, user_interests, Len(required_interests))

\* scores['interests']
InterestsSubScore(user_profile, career) ==
    Round(RMin(InterestScore(user_profile, career), Int2Rat(30)), 100)

RECURSIVE InterestMatchesUpTo(_, _, _)
InterestMatchesUpTo(required_interests, user_interests, i) ==
    IF i = 0 THEN << >>
    ELSE LET rest == InterestMatchesUpTo(required_interests, user_interests, i - 1)
         IN  IF Get(user_interests, required_interests[i].key, 0) >= required_interests[i].value
                 THEN Append(rest, Title(required_interests[i].key))
                 ELSE rest

InterestExplanations(user_profile, career) ==
    LET required_interests == Get(career, "required_interests", << >>)
        user_interests == Get(user_profile, "interests", << >>)
        interest_matches ==
            InterestMatchesUpTo(required_interests, user_interests, Len(required_interests))
    IN  IF interest_matches # << >>
            THEN << [kind |-> "strong_interests", names |-> interest_matches] >> ELSE << >>

\* variant of GpaAdjustment: the bonus is never granted
GpaAdjustment_NoBonus(user_profile, career) ==
    LET min_gpa == Get(career, "min_gpa", 250)
        user_gpa == Get(user_profile, "gpa", 0)
    IN  IF user_gpa < min_gpa
            THEN RSub(Int2Rat(0), RMul(RSub(Dec(min_gpa), Dec(user_gpa)), Int2Rat(5)))
        ELSE Int2Rat(0)

\* variant of GpaAdjustment: the bonus needs a GPA above min_gpa + 0.5
GpaAdjustment_StrictBonus(user_profile, career) ==
    LET min_gpa == Get(career, "min_gpa", 250)
        user_gpa == Get(user_profile, "gpa", 0)
    IN  IF user_gpa < min_gpa
            THEN RSub(Int2Rat(0), RMul(RSub(Dec(min_gpa), Dec(user_gpa)), Int2Rat(5)))
        ELSE IF user_gpa > min_gpa + 50 THEN Int2Rat(3)
        ELSE Int2Rat(0)

\* the GPA penalty or bonus added to total_score (a rational number of points)
GpaAdjustment(user_profile, career) ==
    LET min_gpa == Get(career, "min_gpa", 250)
        user_gpa == Get(user_profile, "gpa", 0)
    IN  IF user_gpa < min_gpa
            THEN RSub(Int2Rat(0), RMul(RSub(Dec(min_gpa), Dec(user_gpa)), Int2Rat(5)))
        ELSE IF user_gpa >= min_gpa + 50 THEN Int2Rat(3)
        ELSE Int2Rat(0)

GpaExplanations(user_profile, career) ==
    LET min_gpa == Get(career, "min_gpa", 250)
        user_gpa == Get(user_profile, "gpa", 0)
    IN  IF user_gpa < min_gpa
            THEN << [kind |-> "gpa_below", min_gpa |-> min_gpa, shown |-> Round(Dec(user_gpa), 10)] >>
        ELSE IF user_gpa >= min_gpa + 50
            THEN << [kind |-> "gpa_excellent", shown |-> Round(Dec(user_gpa), 10)] >>
        ELSE << >>

\* variant of ClampTotal: only the lower bound is enforced
ClampTotal_NoUpper(total_score) == RMax(Int2Rat(0), total_score)

\* max(0, min(100, total_score))
ClampTotal(total_score) == RMax(Int2Rat(0), RMin(Int2Rat(100), total_score))

calculate_match_score(catalog, user_profile, career_id) ==
    IF ~HasKey(catalog, career_id) THEN None
    ELSE
        LET career == Lookup(catalog, career_id)
            academic_score == AcademicScore(user_profile, career)
            scores == [academic |-> Round(academic_score, 100),
                       interests |-> InterestsSubScore(user_profile, career),
                       skills |-> SkillsSubScore(user_profile, career)]
            total_score ==
                ClampTotal(RAdd(Rat(scores.academic + scores.skills + scores.interests, 100),
                                GpaAdjustment(user_profile, career)))
        IN  [career_id |-> career_id,
             career_name |-> Get(career, "name", career_id),
             category |-> Get(career, "category", "General"),
             confidence |-> Round(RDiv(total_score, Int2Rat(100)), 1000) * 10,
             description |-> Get(career, "description", ""),
             explanations |->
                 << AcademicExplanation(academic_score) >>
                 \o SkillExplanations(user_profile, career)
                 \o InterestExplanations(user_profile, career)
                 \o GpaExplanations(user_profile, career),
             match_score |-> Round(total_score, 100),
             score_breakdown |-> scores]

-----------------------------------------------------------------------------
(* CareerMatcher.get_top_careers *)

\* variant of InsertByMatchScore: x goes in front of the entries whose score
\* equals its own (a sort that is not stable)
InsertByMatchScore_Unstable(sorted, x) ==
    LET n == Cardinality({i \in 1..Len(sorted) : sorted[i].match_score > x.match_score})
    IN  SubSeq(sorted, 1, n) \o <<x>> \o SubSeq(sorted, n + 1, Len(sorted))

\* list.sort(key=match_score, reverse=True): stable, so x goes behind every
\* entry whose score is at least its own
InsertByMatchScore(sorted, x) ==
    LET n == Cardinality({i \in 1..Len(sorted) : sorted[i].match_score >= x.match_score})
    IN  SubSeq(sorted, 1, n) \o <<x>> \o SubSeq(sorted, n + 1, Len(sorted))

RECURSIVE SortByMatchScore(_, _)
SortByMatchScore(matches, i) ==
    IF i = 0 THEN << >>
    ELSE Bind(SortByMatchScore(matches, i - 1),
              LAMBDA sorted : InsertByMatchScore(sorted, matches[i]))

\* all_matches after the loop over the first i catalog keys
RECURSIVE AllMatchesUpTo(_, _, _)
AllMatchesUpTo(catalog, user_profile, i) ==
    IF i = 0 THEN << >>
    ELSE Bind(calculate_match_score(catalog, user_profile, catalog[i].key),
              LAMBDA match :
                  LET rest == AllMatchesUpTo(catalog, user_profile, i - 1)
                  IN  IF match # None THEN Append(rest, match) ELSE rest)

\* all_matches[:top_k]
Prefix(seq, k) == SubSeq(seq, 1, IF k < Len(seq) THEN k ELSE Len(seq))

get_top_careers(catalog, user_profile, top_k) ==
    Bind(AllMatchesUpTo(catalog, user_profile, Len(catalog)),
         LAMBDA all_matches :
             Bind(SortByMatchScore(all_matches, Len(all_matches)),
                  LAMBDA sorted : Prefix(sorted, top_k)))

\* CareerMatcher.get_career_details
get_career_details(catalog, career_id) ==
    IF ~HasKey(catalog, career_id) THEN None
    ELSE [k \in DOMAIN Lookup(catalog, career_id) \cup {"career_id"} |->
             IF k = "career_id" THEN career_id ELSE Lookup(catalog, career_id)[k]]

-----------------------------------------------------------------------------
(* CareerMatcher.explain_match *)

\* _generate_summary: the band of the summary sentence
\* variant of generate_summary: a score of exactly 65 is not yet a good match
generate_summary_Above65(match) ==
    LET score == match.match_score
    IN  IF score >= 8000 THEN "excellent"
        ELSE IF score > 6500 THEN "good"
        ELSE IF score >= 5000 THEN "moderate"
        ELSE "low"

generate_summary(match) ==
    LET score == match.match_score
    IN  IF score >= 8000 THEN "excellent"
        ELSE IF score >= 6500 THEN "good"
        ELSE IF score >= 5000 THEN "moderate"
        ELSE "low"

\* max(weights, key=weights.get): the first subject, in the catalog's key
\* order math, science, english, that carries the largest weight
PrimarySubject(weights) ==
    LET order == <<"math", "science", "english">>
        present == {i \in 1..3 : order[i] \in DOMAIN weights}
    IN  IF present = {} THEN "math"
        ELSE order[CHOOSE i \in present :
                      \A j \in present :
                          \/ weights[order[j]] < weights[order[i]]
                          \/ (weights[order[j]] = weights[order[i]] /\ i <= j)]

\* _explain_academic
explain_academic(user_profile, career) ==
    LET primary_subject == PrimarySubject(Get(career, "academic_weights", << >>))
        field == CASE primary_subject = "math" -> "math_score"
                   [] primary_subject = "science" -> "science_score"
                   [] OTHER -> "english_score"
    IN  [aligned |-> IF Get(user_profile, field, 0) >= 70 THEN "well" ELSE "moderately",
         primary_subject |-> primary_subject]

\* _get_matching_skills
RECURSIVE MatchingSkillsUpTo(_, _, _)
MatchingSkillsUpTo(required, user_skills, i) ==
    IF i = 0 THEN << >>
    ELSE LET rest == MatchingSkillsUpTo(required, user_skills, i - 1)
         IN  IF Get(user_skills, required[i].key, 0) >= required[i].value
                 THEN Append(rest, Title(required[i].key)) ELSE rest

get_matching_skills(user_profile, career) ==
    LET required == Get(career, "required_skills", << >>)
    IN  MatchingSkillsUpTo(required, Get(user_profile, "skills", << >>), Len(required))

\* _get_skill_gaps
RECURSIVE SkillGapRecordsUpTo(_, _, _)
SkillGapRecordsUpTo(required, user_skills, i) ==
    IF i = 0 THEN << >>
    ELSE LET rest == SkillGapRecordsUpTo(required, user_skills, i - 1)
             user_level == Get(user_skills, required[i].key, 0)
         IN  IF user_level < required[i].value
                 THEN Append(rest, [current |-> user_level,
                                    gap |-> required[i].value - user_level,
                                    required |-> required[i].value,
                                    skill |-> Title(required[i].key)])
                 ELSE rest

get_skill_gaps(user_profile, career) ==
    LET required == Get(career, "required_skills", << >>)
    IN  SkillGapRecordsUpTo(required, Get(user_profile, "skills", << >>), Len(required))

\* _get_matching_interests
get_matching_interests(user_profile, career) ==
    LET required == Get(career, "required_interests", << >>)
    IN  MatchingSkillsUpTo(required, Get(user_profile, "interests", << >>), Len(required))

\* _generate_recommendations
generate_recommendations(user_profile, career) ==
    LET gaps == get_skill_gaps(user_profile, career)
        top2 == Prefix(gaps, 2)
        skill_recs == [i \in 1..Len(top2) |->
                          [current |-> top2[i].current, kind |-> "develop_skill",
                           required |-> top2[i].required, skill |-> top2[i].skill]]
        min_gpa == Get(career, "min_gpa", 250)
        gpa_recs == IF Get(user_profile, "gpa", 0) < min_gpa
                        THEN << [kind |-> "improve_gpa", min_gpa |-> min_gpa] >>
                        ELSE << >>
        recommendations == skill_recs \o gpa_recs
    IN  IF recommendations = << >> THEN << [kind |-> "on_track"] >> ELSE recommendations

Explanation(catalog, user_profile, career_id, match) ==
        IF match = None THEN [error |-> "Career not found"]
        ELSE
            LET career == Lookup(catalog, career_id)
            IN  [breakdown |->
                     [academic_fit |->
                          [explanation |-> explain_academic(user_profile, career),
                           score |-> Round(Rat(match.score_breakdown.academic, 100), 10)],
                      interests_fit |->
                          [matching |-> get_matching_interests(user_profile, career),
                           score |-> Round(Rat(match.score_breakdown.interests, 100), 10)],
                      skills_fit |->
                          [gaps |-> get_skill_gaps(user_profile, career),
                           matching |-> get_matching_skills(user_profile, career),
                           score |-> Round(Rat(match.score_breakdown.skills, 100), 10)]],
                 career |-> match.career_name,
                 overall_match |-> Round(Rat(match.match_score, 100), 10),
                 recommendations |-> generate_recommendations(user_profile, career),
                 summary |-> generate_summary(match)]

\* variant of explain_match: an unknown career yields the absent value, as
\* in calculate_match_score, and not the error value
explain_match_Absent(catalog, user_profile, career_id) ==
    Bind(calculate_match_score(catalog, user_profile, career_id),
         LAMBDA match : IF match = None THEN None
                        ELSE Explanation(catalog, user_profile, career_id, match))

explain_match(catalog, user_profile, career_id) ==
    Bind(calculate_match_score(catalog, user_profile, career_id),
         LAMBDA match : Explanation(catalog, user_profile, career_id, match))

-----------------------------------------------------------------------------
(* MLPredictor *)

\* the outcome of a step that may raise
Ok(v) == [ok |-> TRUE, value |-> v]
Raised == [ok |-> FALSE]

\* feature_name.replace('skill_', '') for the names that start with 'skill_'
SkillFeatures ==
    [skill_analytical_thinking |-> "analytical_thinking", skill_attention_to_detail |-> "attention_to_detail",
     skill_communication |-> "communication",
     skill_creativity |-> "creativity", skill_dedication |-> "dedication",
     skill_empathy |-> "empathy", skill_integrity |-> "integrity",
     skill_leadership |-> "leadership",
     skill_patience |-> "patience",
     skill_presentation |-> "presentation", skill_problem_solving |-> "problem_solving",
     skill_programming |-> "programming", skill_project_management |-> "project_management",
     skill_stress_management |-> "stress_management", skill_teamwork |-> "teamwork",
     skill_technical_skills |-> "technical_skills", skill_time_management |-> "time_management"]

\* feature_name.replace('interest_', '') for the names that start with 'interest_'
InterestFeatures ==
    [interest_arts |-> "arts", interest_business |-> "business",
     interest_education |-> "education", interest_engineering |-> "engineering",
     interest_finance |-> "finance", interest_healthcare |-> "healthcare",
     interest_helping_others |-> "helping_others", interest_law |-> "law",
     interest_research |-> "research", interest_technology |-> "technology"]

\* MLPredictor._get_default_feature_names
DefaultFeatureNames ==
    <<"math_score", "science_score", "english_score", "gpa",
      "skill_programming", "skill_communication", "skill_analytical_thinking",
      "skill_problem_solving", "skill_creativity", "skill_leadership", "skill_teamwork",
      "skill_attention_to_detail", "skill_time_management", "skill_stress_management",
      "skill_empathy", "skill_technical_skills", "skill_presentation",
      "skill_project_management", "skill_dedication", "skill_integrity", "skill_patience",
      "interest_technology", "interest_engineering", "interest_healthcare",
      "interest_business", "interest_arts", "interest_education", "interest_research",
      "interest_helping_others", "interest_finance", "interest_law">>

\* the value _prepare_features computes for one feature name
FeatureValue(feature_name, user_profile) ==
    LET skills == Get(user_profile, "skills", << >>)
        interests == Get(user_profile, "interests", << >>)
    IN  IF feature_name = "math_score"
            THEN Rat(Get(user_profile, "math_score", 0), 100)
        ELSE IF feature_name = "science_score"
            THEN Rat(Get(user_profile, "science_score", 0), 100)
        ELSE IF feature_name = "english_score"
            THEN Rat(Get(user_profile, "english_score", 0), 100)
        ELSE IF feature_name = "gpa"
            THEN RDiv(Dec(Get(user_profile, "gpa", 0)), Int2Rat(4))
        ELSE IF feature_name \in DOMAIN SkillFeatures
            THEN Rat(Get(skills, SkillFeatures[feature_name], 0), 5)
        ELSE IF feature_name \in DOMAIN InterestFeatures
            THEN Rat(Get(interests, InterestFeatures[feature_name], 0), 5)
        ELSE IF feature_name \in DOMAIN skills THEN Rat(skills[feature_name], 5)
        ELSE IF feature_name \in DOMAIN interests THEN Rat(interests[feature_name], 5)
        ELSE Int2Rat(0)

\* a rating map of the profile is a map (and not null)
IsMap(ratings) == "none" \notin DOMAIN ratings

\* computing the value of one feature raises: .get or "in" applied to a
\* rating map that is null
FeatureRaises(feature_name, user_profile) ==
    LET skills == Get(user_profile, "skills", << >>)
        interests == Get(user_profile, "interests", << >>)
    IN  IF feature_name \in {"math_score", "science_score", "english_score", "gpa"}
            THEN FALSE
        ELSE IF feature_name \in DOMAIN SkillFeatures THEN ~IsMap(skills)
        ELSE IF feature_name \in DOMAIN InterestFeatures THEN ~IsMap(interests)
        ELSE \/ ~IsMap(skills)
             \/ feature_name \notin DOMAIN skills /\ ~IsMap(interests)

\* self.feature_names after _prepare_features has run
PreparedFeatureNames(names) == IF names = None THEN Some(DefaultFeatureNames) ELSE names

\* MLPredictor._prepare_features: the feature vector
\* variant of prepare_features: schema entries the profile gives no value
\* for are left out of the vector
prepare_features_SkipAbsent(names, user_profile) ==
    LET schema == PreparedFeatureNames(names).some
        skills == Get(user_profile, "skills", << >>)
        interests == Get(user_profile, "interests", << >>)
        given == SelectSeq(schema,
                           LAMBDA feature_name :
                               \/ feature_name \in DOMAIN user_profile
                               \/ feature_name \in DOMAIN SkillFeatures
                               \/ feature_name \in DOMAIN InterestFeatures
                               \/ feature_name \in DOMAIN skills
                               \/ feature_name \in DOMAIN interests)
    IN  [i \in 1..Len(given) |-> FeatureValue(given[i], user_profile)]

prepare_features(names, user_profile) ==
    LET schema == PreparedFeatureNames(names).some
    IN  [i \in 1..Len(schema) |-> FeatureValue(schema[i], user_profile)]

\* MLPredictor._prepare_features: the vector returned, or the exception
PreparedFeatures(names, user_profile) ==
    LET schema == PreparedFeatureNames(names).some
    IN  IF \E i \in 1..Len(schema) : FeatureRaises(schema[i], user_profile) THEN Raised
        ELSE Ok(prepare_features(names, user_profile))

\* scaler.transform([features])[0]: standardisation, which rejects a vector of
\* another length than the scaler was fitted on
ScalerTransform(sc, feats) ==
    IF Len(feats) # sc.n_features_in THEN Raised
    ELSE Ok([i \in 1..Len(feats) |-> RDiv(RSub(feats[i], sc.mean), sc.scale)])

\* model.predict_proba(features_array)[0]: the classifier is a threshold on
\* its first feature; it rejects a vector of another length than it was
\* trained on
PredictProba(m, feats) ==
    IF Len(feats) # m.n_features THEN Raised
    ELSE Ok(IF RLe(m.threshold, feats[1]) THEN m.high ELSE m.low)

\* label_encoder.inverse_transform([idx])[0], idx counted from 0
InverseTransform(encoder, idx) ==
    IF encoder = None THEN Raised
    ELSE IF idx < 0 \/ idx >= Len(encoder.classes) THEN Raised
    ELSE Ok(encoder.classes[idx + 1])

\* career_label.lower().replace(' ', '_')
LabelToId(label) ==
    CASE label = "Astronaut" -> "astronaut"
      [] label = "Data Scientist" -> "data_scientist"
      [] label = "Civil Engineer" -> "civil_engineer"
      [] label = "Software Engineer" -> "software_engineer"
      [] label = "Writer" -> "writer"
      [] OTHER -> label

\* np.argsort(probabilities): indices (from 0) by ascending probability, equal
\* probabilities in index order
InsertAscending(probabilities, sorted, idx) ==
    LET n == Cardinality({i \in 1..Len(sorted) :
                             RLe(probabilities[sorted[i] + 1], probabilities[idx + 1])})
    IN  SubSeq(sorted, 1, n) \o <<idx>> \o SubSeq(sorted, n + 1, Len(sorted))

RECURSIVE ArgsortUpTo(_, _)
ArgsortUpTo(probabilities, i) ==
    IF i = 0 THEN << >>
    ELSE Bind(ArgsortUpTo(probabilities, i - 1),
              LAMBDA sorted : InsertAscending(probabilities, sorted, i - 1))

Argsort(probabilities) == ArgsortUpTo(probabilities, Len(probabilities))

Reverse(seq) == [i \in 1..Len(seq) |-> seq[Len(seq) + 1 - i]]

\* np.argsort(probabilities)[-top_k:][::-1]
TopIndices(probabilities, top_k) ==
    Bind(Argsort(probabilities),
         LAMBDA order :
             LET from == IF top_k >= Len(order) THEN 1 ELSE Len(order) - top_k + 1
             IN  Reverse(SubSeq(order, from, Len(order))))

\* the prediction for one class index
Prediction(encoder, probabilities, idx) ==
    LET label == InverseTransform(encoder, idx)
        confidence == probabilities[idx + 1]
    IN  IF ~label.ok THEN Raised
        ELSE Ok([career_id |-> LabelToId(label.value),
                 career_name |-> label.value,
                 confidence |-> Round(confidence, 10000),
                 match_score |-> Round(RMul(confidence, Int2Rat(100)), 100)])

\* MLPredictor.is_model_loaded
is_model_loaded(m) == m # None

\* variant of Predictions: when a label lookup raises, the predictions
\* collected before it are returned
Predictions_KeepCollected(encoder, probabilities, top_k) ==
    Bind(TopIndices(probabilities, top_k),
         LAMBDA top_indices :
             Bind([i \in 1..Len(top_indices) |->
                      Prediction(encoder, probabilities, top_indices[i])],
                  LAMBDA predictions :
                      LET collected == {n \in 0..Len(predictions) :
                                           \A i \in 1..n : predictions[i].ok}
                          last == CHOOSE n \in collected : \A o \in collected : o <= n
                      IN  [i \in 1..last |-> predictions[i].value]))

\* the predictions for the top_k classes of a probability vector, or the
\* empty list when a label lookup raises
Predictions(encoder, probabilities, top_k) ==
    Bind(TopIndices(probabilities, top_k),
         LAMBDA top_indices :
             Bind([i \in 1..Len(top_indices) |->
                      Prediction(encoder, probabilities, top_indices[i])],
                  LAMBDA predictions :
                      IF \E i \in 1..Len(predictions) : ~predictions[i].ok THEN << >>
                      ELSE [i \in 1..Len(predictions) |-> predictions[i].value]))

\* the features as the classifier receives them
ScaledFeatures(names, sc, user_profile) ==
    Bind(PreparedFeatures(names, user_profile),
         LAMBDA prepared : IF ~prepared.ok THEN Raised
                           ELSE IF sc # None THEN ScalerTransform(sc, prepared.value)
                           ELSE prepared)

\* MLPredictor.predict: the list returned
predict(m, encoder, names, sc, user_profile, top_k) ==
    IF ~is_model_loaded(m) THEN << >>
    ELSE
        Bind(ScaledFeatures(names, sc, user_profile),
             LAMBDA feats :
                 Bind(IF feats.ok THEN PredictProba(m, feats.value) ELSE Raised,
                      LAMBDA probabilities :
                          IF ~probabilities.ok THEN << >>
                          ELSE Predictions(encoder, probabilities.value, top_k)))

-----------------------------------------------------------------------------
(* combine_predictions and the /predict route *)

RuleWeight == Rat(4, 10)
MlWeight == Rat(6, 10)

\* {**rec, **extra}
Merge(rec, extra) ==
    [k \in DOMAIN rec \cup DOMAIN extra |-> IF k \in DOMAIN extra THEN extra[k] ELSE rec[k]]

\* rec.get("career_id") is present and truthy
HasCareerId(rec) == "career_id" \in DOMAIN rec /\ rec.career_id # ""

\* hundredths of a point as a rational number of points
Points(h) == Rat(h, 100)

\* the accumulator after the loop over the first i rule-based results
RECURSIVE AddRuleBased(_, _, _)
AddRuleBased(rule_based, rule_weight, i) ==
    IF i = 0 THEN << >>
    ELSE Bind(AddRuleBased(rule_based, rule_weight, i - 1), LAMBDA combined :
         LET rec == rule_based[i]
             entry == Merge(rec, [combined_score |->
                                      RMul(Points(Get(rec, "match_score", 0)), rule_weight),
                                  ml_score |-> 0,
                                  rule_score |-> Get(rec, "match_score", 0)])
         IN  IF ~HasCareerId(rec) THEN combined
             ELSE IF HasKey(combined, rec.career_id)
                 THEN [combined EXCEPT ![ItemAt(combined, rec.career_id)].value = entry]
             ELSE Append(combined, [key |-> rec.career_id, value |-> entry]))

\* variant of AddMlBased: every model result gets an entry of its own
RECURSIVE AddMlBased_AlwaysAppend(_, _, _, _)
AddMlBased_AlwaysAppend(combined0, ml_based, ml_weight, i) ==
    IF i = 0 THEN combined0
    ELSE LET rec == ml_based[i]
             ml_score == Get(rec, "confidence", 0)
         IN  Append(AddMlBased_AlwaysAppend(combined0, ml_based, ml_weight, i - 1),
                    [key |-> rec.career_id,
                     value |-> Merge(rec, [combined_score |->
                                               RMul(Points(ml_score), ml_weight),
                                           ml_score |-> ml_score,
                                           rule_score |-> 0])])

\* the accumulator after the loop over the first i model results
RECURSIVE AddMlBased(_, _, _, _)
AddMlBased(combined0, ml_based, ml_weight, i) ==
    IF i = 0 THEN combined0
    ELSE Bind(AddMlBased(combined0, ml_based, ml_weight, i - 1), LAMBDA combined :
         LET rec == ml_based[i]
             ml_score == Get(rec, "confidence", 0)
             weighted == RMul(Points(ml_score), ml_weight)
         IN  IF ~HasCareerId(rec) THEN combined
             ELSE IF HasKey(combined, rec.career_id)
                 THEN LET at == ItemAt(combined, rec.career_id)
                      IN  [combined EXCEPT
                              ![at].value.ml_score = ml_score,
                              ![at].value.combined_score =
                                  RAdd(combined[at].value.combined_score, weighted)]
             ELSE Append(combined,
                         [key |-> rec.career_id,
                          value |-> Merge(rec, [combined_score |-> weighted,
                                                ml_score |-> ml_score,
                                                rule_score |-> 0])]))

\* variant of InsertByCombinedScore: x goes in front of the entries whose
\* combined_score equals its own
InsertByCombinedScore_Unstable(sorted, x) ==
    LET n == Cardinality({i \in 1..Len(sorted) :
                             RLt(x.combined_score, sorted[i].combined_score)})
    IN  SubSeq(sorted, 1, n) \o <<x>> \o SubSeq(sorted, n + 1, Len(sorted))

\* sorted(combined.values(), key=combined_score, reverse=True): stable
InsertByCombinedScore(sorted, x) ==
    LET n == Cardinality({i \in 1..Len(sorted) :
                             RLe(x.combined_score, sorted[i].combined_score)})
    IN  SubSeq(sorted, 1, n) \o <<x>> \o SubSeq(sorted, n + 1, Len(sorted))

RECURSIVE SortByCombinedScore(_, _)
SortByCombinedScore(combined, i) ==
    IF i = 0 THEN << >>
    ELSE Bind(SortByCombinedScore(combined, i - 1),
              LAMBDA sorted : InsertByCombinedScore(sorted, combined[i].value))

\* variant of combine_predictions: the two weights are swapped
combine_predictions_SwappedWeights(rule_based, ml_based, rule_weight, ml_weight) ==
    Bind(AddRuleBased(rule_based, ml_weight, Len(rule_based)), LAMBDA seeded :
    Bind(AddMlBased(seeded, ml_based, rule_weight, Len(ml_based)), LAMBDA combined :
    Bind(SortByCombinedScore(combined, Len(combined)), LAMBDA sorted_careers :
        [i \in 1..Len(sorted_careers) |->
            [sorted_careers[i] EXCEPT
                !.match_score = Round(sorted_careers[i].combined_score, 100)]])))

combine_predictions(rule_based, ml_based, rule_weight, ml_weight) ==
    Bind(AddRuleBased(rule_based, rule_weight, Len(rule_based)), LAMBDA seeded :
    Bind(AddMlBased(seeded, ml_based, ml_weight, Len(ml_based)), LAMBDA combined :
    Bind(SortByCombinedScore(combined, Len(combined)), LAMBDA sorted_careers :
        [i \in 1..Len(sorted_careers) |->
            [sorted_careers[i] EXCEPT
                !.match_score = Round(sorted_careers[i].combined_score, 100)]])))

\* the include_details loop of predict_careers
AddDetails(catalog, recommendations) ==
    [i \in 1..Len(recommendations) |->
        LET rec == recommendations[i]
            details == IF HasCareerId(rec) THEN get_career_details(catalog, rec.career_id)
                                           ELSE None
        IN  IF details # None
                THEN Merge(rec, [nepal_info |-> Get(details, "nepal_info", << >>)])
                ELSE rec]

\* the response of predict_careers for given rule-based and model results
Respond(catalog, request, consult, rule_based_results, ml_results) ==
    Bind(IF consult
             THEN combine_predictions(rule_based_results, ml_results, RuleWeight, MlWeight)
             ELSE rule_based_results,
         LAMBDA recommendations :
             Bind(IF request.include_details THEN AddDetails(catalog, recommendations)
                                             ELSE recommendations,
                  LAMBDA detailed :
                      [method_used |-> IF consult THEN "hybrid" ELSE "rule_based",
                       recommendations |-> detailed,
                       success |-> TRUE,
                       total_matches |-> Len(detailed)]))

\* variant of predict_careers: the model is consulted whenever it is asked
\* for, loaded or not
predict_careers_NoLoadedCheck(catalog, m, encoder, names, sc, request) ==
    LET consult == request.use_ml_model
    IN  Bind(get_top_careers(catalog, request.user_profile, request.top_k),
             LAMBDA rule_based_results :
                 Bind(IF consult
                          THEN predict(m, encoder, names, sc, request.user_profile,
                                       request.top_k)
                          ELSE << >>,
                      LAMBDA ml_results :
                          Respond(catalog, request, consult, rule_based_results, ml_results)))

\* predict_careers: the response
predict_careers(catalog, m, encoder, names, sc, request) ==
    LET consult == request.use_ml_model /\ is_model_loaded(m)
    IN  Bind(get_top_careers(catalog, request.user_profile, request.top_k),
             LAMBDA rule_based_results :
                 Bind(IF consult
                          THEN predict(m, encoder, names, sc, request.user_profile,
                                       request.top_k)
                          ELSE << >>,
                      LAMBDA ml_results :
                          Respond(catalog, request, consult, rule_based_results, ml_results)))

-----------------------------------------------------------------------------
(* Request inputs *)

\* The example profile of the /predict request schema, restricted to the
\* vocabulary of the catalogs above.
BaseProfile ==
    [english_score |-> 75, gpa |-> 370, interests |-> [technology |-> 5], math_score |-> 85,
     science_score |-> 90,
     skills |-> [analytical_thinking |-> 5, programming |-> 4]]

With(d, k, v) == [x \in DOMAIN d \cup {k} |-> IF x = k THEN v ELSE d[x]]
Without(d, k) == [x \in DOMAIN d \ {k} |-> d[x]]

Scores == {0, 80, 100}
UserRatings == (0 - 1)..MaxUserRating
Gpas == {0, 200, 250, 299, 300, 349, 350, 370, 400}

\* every rating map over the given names: each name absent or rated
RatingMaps(names) ==
    UNION {[chosen -> UserRatings] : chosen \in SUBSET names}

AcademicProfiles ==
    {[BaseProfile EXCEPT !.math_score = m, !.science_score = s, !.english_score = e] :
        m \in Scores, s \in Scores, e \in Scores}

SkillProfiles ==
    {[BaseProfile EXCEPT !.skills = sk] : sk \in RatingMaps({"programming", "analytical_thinking"})}

InterestProfiles ==
    {[BaseProfile EXCEPT !.interests = it] : it \in RatingMaps({"technology"})}

GpaProfiles == {[BaseProfile EXCEPT !.gpa = g] : g \in Gpas}

\* profiles with fields missing, the weakest and the strongest profile
EdgeProfiles ==
    { Without(BaseProfile, "math_score"), Without(BaseProfile, "gpa"),
      Without(BaseProfile, "skills"), Without(BaseProfile, "interests"),
      << >>,
      [english_score |-> 0, gpa |-> 0, interests |-> << >>, math_score |-> 0,
       science_score |-> 0, skills |-> << >>],
      [english_score |-> 100, gpa |-> 400, interests |-> [engineering |-> 5, technology |-> 5], math_score |-> 100,
       science_score |-> 100,
       skills |-> [analytical_thinking |-> 5, communication |-> 5, problem_solving |-> 5,
                   programming |-> 5]] }

\* the profiles used against the whole engine: the example, the weakest, the
\* strongest and a middling one
EngineProfiles ==
    { BaseProfile,
      [english_score |-> 0, gpa |-> 0, interests |-> << >>, math_score |-> 0,
       science_score |-> 0, skills |-> << >>],
      [english_score |-> 100, gpa |-> 400, interests |-> [engineering |-> 5, technology |-> 5], math_score |-> 100,
       science_score |-> 100,
       skills |-> [analytical_thinking |-> 5, communication |-> 5, problem_solving |-> 5,
                   programming |-> 5]],
      [english_score |-> 0, gpa |-> 299, interests |-> [technology |-> 3], math_score |-> 80,
       science_score |-> 100,
       skills |-> [analytical_thinking |-> 3, programming |-> 2]] }

\* predictions as MLPredictor.predict packages them; two of them resolve to
\* the same career identifier, one to an identifier outside the catalogs
ModelResults ==
    { [career_id |-> "data_scientist", career_name |-> "Data Scientist",
       confidence |-> 5000, match_score |-> 5000],
      [career_id |-> "data_scientist", career_name |-> "data_scientist",
       confidence |-> 3000, match_score |-> 3000],
      [career_id |-> "astronaut", career_name |-> "Astronaut",
       confidence |-> 5000, match_score |-> 5000] }

ModelResultLists == UNION {[1..n -> ModelResults] : n \in 0..MaxModelResults}

\* the fields of a profile that the scorer reads
ProfileFields ==
    {"math_score", "science_score", "english_score", "gpa", "skills", "interests"}

\* the example profile with any subset of its fields missing
PartialProfiles ==
    {[f \in present |-> BaseProfile[f]] : present \in SUBSET ProfileFields}

ScoreProfiles ==
    AcademicProfiles \cup SkillProfiles \cup InterestProfiles \cup GpaProfiles
        \cup EdgeProfiles \cup PartialProfiles

-----------------------------------------------------------------------------
(* Startup *)

\* MLPredictor.__init__ with no model artifact, or one that failed to load
NoAdapter ==
    [feature_names |-> None, label_encoder |-> None, model |-> None, scaler |-> None]

\* a classifier over six features and four classes
Classifier ==
    [high |-> <<Rat(2, 5), Rat(1, 5), Rat(1, 5), Rat(1, 5)>>, low |-> <<Rat(1, 10), Rat(1, 2), Rat(1, 10), Rat(3, 10)>>,
     n_features |-> 6,
     threshold |-> Int2Rat(1)]

LabelSpace == [classes |-> <<"Astronaut", "Data Scientist", "Writer", "data_scientist">>]

\* an artifact with model, label space, feature schema and scaler
FullAdapter ==
    [feature_names |-> Some(<<"math_score", "gpa", "skill_programming",
                              "interest_technology", "analytical_thinking",
                              "certification_count">>),
     label_encoder |-> LabelSpace,
     model |-> Classifier,
     scaler |-> [mean |-> Rat(1, 2), n_features_in |-> 6, scale |-> Rat(1, 4)]]

\* an artifact that carries neither feature schema nor scaler
SchemalessAdapter ==
    [feature_names |-> None, label_encoder |-> LabelSpace,
     model |-> Classifier, scaler |-> None]

\* an artifact without label space
EncoderlessAdapter ==
    [feature_names |-> FullAdapter.feature_names, label_encoder |-> None,
     model |-> Classifier, scaler |-> FullAdapter.scaler]

\* an artifact whose label space knows fewer classes than its classifier
ShortEncoderAdapter ==
    [feature_names |-> FullAdapter.feature_names,
     label_encoder |-> [classes |-> <<"Astronaut", "Data Scientist">>],
     model |-> Classifier, scaler |-> FullAdapter.scaler]

\* an artifact whose scaler was fitted on another number of features
MisfitScalerAdapter ==
    [feature_names |-> FullAdapter.feature_names, label_encoder |-> LabelSpace,
     model |-> Classifier,
     scaler |-> [mean |-> Rat(1, 2), n_features_in |-> 5, scale |-> Rat(1, 4)]]

\* an artifact without model
ModellessAdapter ==
    [feature_names |-> FullAdapter.feature_names, label_encoder |-> LabelSpace,
     model |-> None, scaler |-> None]

\* an artifact without feature schema and scaler whose classifier was trained
\* on the default features
DefaultSchemaAdapter ==
    [feature_names |-> None, label_encoder |-> LabelSpace,
     model |-> [Classifier EXCEPT !.n_features = Len(DefaultFeatureNames)],
     scaler |-> None]

\* what is found at model_path: nothing, a file joblib.load cannot read, or
\* the dictionary stored in the file
NoArtifact == [exists |-> FALSE]
UnreadableArtifact == [exists |-> TRUE, readable |-> FALSE]
Artifact(model_data) == [exists |-> TRUE, model_data |-> model_data, readable |-> TRUE]

\* MLPredictor.__init__ and _load_model: the adapter they leave
load_model(artifact) ==
    IF ~artifact.exists THEN NoAdapter
    ELSE IF ~artifact.readable THEN NoAdapter
    ELSE [feature_names |-> Get(artifact.model_data, "feature_names", None),
          label_encoder |-> Get(artifact.model_data, "label_encoder", None),
          model |-> Get(artifact.model_data, "model", None),
          scaler |-> Get(artifact.model_data, "scaler", None)]

LoadedCatalog == [careers |-> LoadedCareers, features |-> LoadedFeatures]
DefaultCatalog == [careers |-> DefaultCareers, features |-> DefaultFeatures]

\* what startup (CareerMatcher.__init__: the catalog read from the config
\* file, or the built-in one when the file is missing or unreadable; and
\* MLPredictor.__init__) can leave behind
Startup(catalog, artifact) ==
    [adapter |-> load_model(artifact), artifact |-> artifact, catalog |-> catalog]

StartupStates ==
    { Startup(LoadedCatalog, NoArtifact),
      Startup(DefaultCatalog, NoArtifact),
      Startup(LoadedCatalog, Artifact(FullAdapter)),
      Startup(LoadedCatalog, Artifact(SchemalessAdapter)) }

\* the state at the end of startup s
Started(s) ==
    /\ careers = s.catalog.careers
    /\ features = s.catalog.features
    /\ model = s.adapter.model
    /\ label_encoder = s.adapter.label_encoder
    /\ feature_names = s.adapter.feature_names
    /\ scaler = s.adapter.scaler
    /\ startup = s
    /\ call = [op |-> "startup"]
    /\ ret = Returned(None)
    /\ requests = << >>

Init == \E s \in StartupStates : Started(s)

engine == <<careers, features, model, label_encoder, feature_names, scaler, startup>>

-----------------------------------------------------------------------------
(* Operations *)

\* a caller invokes operation c; the engine serves one call at a time
Request(c) ==
    /\ Done
    /\ call' = c
    /\ ret' = Pending
    /\ UNCHANGED <<engine, requests>>

Serving(op) == call.op = op /\ ret = Pending

CalculateMatchScore ==
    /\ Serving("calculate_match_score")
    /\ ret' = Returned(calculate_match_score(careers, call.user_profile, call.career_id))
    /\ UNCHANGED <<engine, call, requests>>

GetTopCareers ==
    /\ Serving("get_top_careers")
    /\ ret' = Returned(get_top_careers(careers, call.user_profile, call.top_k))
    /\ UNCHANGED <<engine, call, requests>>

\* variant of ExplainMatch: the career is taken out of the catalog
\* (self.careers.pop for self.careers.get)
ExplainMatch_Pop ==
    /\ Serving("explain_match")
    /\ ret' = Returned(explain_match(careers, call.user_profile, call.career_id))
    /\ careers' = SelectSeq(careers, LAMBDA entry : entry.key # call.career_id)
    /\ UNCHANGED <<features, model, label_encoder, feature_names, scaler, startup, call, requests>>

ExplainMatch ==
    /\ Serving("explain_match")
    /\ ret' = Returned(explain_match(careers, call.user_profile, call.career_id))
    /\ UNCHANGED <<engine, call, requests>>

\* MLPredictor.predict; _prepare_features stores the default feature names in
\* the adapter when the artifact brought none
Predict ==
    /\ Serving("predict")
    /\ ret' = Returned(predict(model, label_encoder, feature_names, scaler,
                               call.user_profile, call.top_k))
    /\ feature_names' = IF is_model_loaded(model) THEN PreparedFeatureNames(feature_names)
                                                  ELSE feature_names
    /\ UNCHANGED <<careers, features, model, label_encoder, scaler, startup, call, requests>>

\* MLPredictor._prepare_features called on its own
PrepareFeatures ==
    /\ Serving("prepare_features")
    /\ ret' = Returned(PreparedFeatures(feature_names, call.user_profile))
    /\ feature_names' = PreparedFeatureNames(feature_names)
    /\ UNCHANGED <<careers, features, model, label_encoder, scaler, startup, call, requests>>

CombinePredictions ==
    /\ Serving("combine_predictions")
    /\ ret' = Returned(combine_predictions(call.rule_based, call.ml_based,
                                           RuleWeight, MlWeight))
    /\ UNCHANGED <<engine, call, requests>>

\* the /predict route
PredictCareers ==
    /\ Serving("predict_careers")
    /\ ret' = Returned(predict_careers(careers, model, label_encoder, feature_names,
                                       scaler, call))
    /\ feature_names' = IF call.use_ml_model /\ is_model_loaded(model)
                            THEN PreparedFeatureNames(feature_names)
                            ELSE feature_names
    /\ UNCHANGED <<careers, features, model, label_encoder, scaler, startup, call, requests>>

-----------------------------------------------------------------------------
(* The engine under every sequence of calls *)

\* prediction_request.user_profile.model_dump(): the optional fields take
\* their defaults
ModelDump(profile) ==
    Merge([academic_level |-> "undergraduate", certifications |-> << >>], profile)

TopKs == 1..MaxTopK

RequestScore ==
    \E p \in EngineProfiles, c \in CareerIds :
        Request([career_id |-> c, op |-> "calculate_match_score", user_profile |-> p])

RequestTop ==
    \E p \in EngineProfiles, k \in TopKs :
        Request([op |-> "get_top_careers", top_k |-> k, user_profile |-> p])

RequestExplain ==
    \E p \in EngineProfiles, c \in CareerIds :
        Request([career_id |-> c, op |-> "explain_match", user_profile |-> p])

RequestPredict ==
    \E p \in EngineProfiles, k \in TopKs :
        Request([op |-> "predict", top_k |-> k, user_profile |-> p])

\* rule results are what get_top_careers returns, the empty list included
RuleResultLists ==
    {get_top_careers(c, p, k) :
        c \in {LoadedCareers, DefaultCareers}, p \in EngineProfiles, k \in 0..MaxTopK}

RequestCombine ==
    \E rule_based \in RuleResultLists, ml_based \in ModelResultLists :
        Request([ml_based |-> ml_based,
                 op |-> "combine_predictions", rule_based |-> rule_based])

RequestPredictCareers ==
    \E p \in EngineProfiles, k \in TopKs, use_ml \in BOOLEAN, details \in BOOLEAN :
        Request([include_details |-> details, op |-> "predict_careers", top_k |-> k,
                 use_ml_model |-> use_ml, user_profile |-> ModelDump(p)])

Next ==
    \/ RequestScore \/ CalculateMatchScore
    \/ RequestTop \/ GetTopCareers
    \/ RequestExplain \/ ExplainMatch
    \/ RequestPredict \/ Predict
    \/ RequestCombine \/ CombinePredictions
    \/ RequestPredictCareers \/ PredictCareers

Spec == Init /\ [][Next]_vars

-----------------------------------------------------------------------------
(* The model adapter over the artifacts it can find *)

AdapterArtifacts ==
    { NoArtifact, UnreadableArtifact,
      Artifact(FullAdapter), Artifact(SchemalessAdapter), Artifact(EncoderlessAdapter),
      Artifact(ShortEncoderAdapter), Artifact(MisfitScalerAdapter),
      Artifact(ModellessAdapter), Artifact(DefaultSchemaAdapter) }

AdapterStartupStates == {Startup(LoadedCatalog, a) : a \in AdapterArtifacts}

\* profiles whose skills or interests are null
NullRatingsProfiles ==
    {[BaseProfile EXCEPT !.skills = None], [BaseProfile EXCEPT !.interests = None]}

AdapterProfiles == EngineProfiles \cup EdgeProfiles \cup NullRatingsProfiles

RequestAdapterPredict ==
    \E p \in AdapterProfiles, k \in TopKs :
        Request([op |-> "predict", top_k |-> k, user_profile |-> p])

RequestPrepareFeatures ==
    \E p \in AdapterProfiles :
        Request([op |-> "prepare_features", user_profile |-> p])

AdapterInit == \E s \in AdapterStartupStates : Started(s)

AdapterNext ==
    \/ RequestAdapterPredict \/ Predict
    \/ RequestPrepareFeatures \/ PrepareFeatures
    \/ RequestPredictCareers \/ PredictCareers

AdapterSpec == AdapterInit /\ [][AdapterNext]_vars

-----------------------------------------------------------------------------
(* Route handlers in progress at once on one catalog and one adapter *)

ConcurrentStartupStates ==
    {Startup(LoadedCatalog, a) :
        a \in {NoArtifact, Artifact(FullAdapter), Artifact(SchemalessAdapter),
               Artifact(DefaultSchemaAdapter)}}

\* the profiles of the concurrent requests, each with its top_k
ConcurrentProfiles ==
    {[profile |-> BaseProfile, top_k |-> MaxTopK],
     [profile |-> [BaseProfile EXCEPT !.math_score = 0], top_k |-> 1]}

ConcurrentCalls ==
    {[include_details |-> TRUE, op |-> "predict_careers", top_k |-> p.top_k,
      use_ml_model |-> use_ml, user_profile |-> ModelDump(p.profile)] :
        p \in ConcurrentProfiles, use_ml \in BOOLEAN}
    \cup {[career_id |-> c, op |-> "explain_prediction", user_profile |-> ModelDump(BaseProfile)] :
              c \in {"data_scientist", "astronaut"}}

\* a handler starts on a request
Arrive ==
    /\ Len(requests) < MaxConcurrent
    /\ \E c \in ConcurrentCalls :
           requests' = Append(requests,
                              [call |-> c, ml_results |-> << >>, pc |-> "start",
                               ret |-> None, rule_based_results |-> << >>])
    /\ UNCHANGED <<engine, call, ret>>

\* handler t is at position pc of route op
At(t, op, pc) == requests[t].call.op = op /\ requests[t].pc = pc

\* predict_careers up to the test of use_ml_model and is_model_loaded()
RuleBased(t) ==
    LET r == requests[t]
    IN  /\ At(t, "predict_careers", "start")
        /\ requests' =
               [requests EXCEPT ![t] =
                   [r EXCEPT !.pc = IF r.call.use_ml_model /\ is_model_loaded(model)
                                        THEN "check_schema"
                                        ELSE "respond",
                             !.rule_based_results =
                                 get_top_careers(careers, r.call.user_profile, r.call.top_k)]]
        /\ UNCHANGED <<engine, call, ret>>

\* _prepare_features: the test of self.feature_names
CheckSchema(t) ==
    /\ At(t, "predict_careers", "check_schema")
    /\ requests' =
           [requests EXCEPT ![t].pc = IF feature_names = None THEN "assign_schema"
                                                              ELSE "inference"]
    /\ UNCHANGED <<engine, call, ret>>

\* variant of AssignDefaults: the list is stored empty and filled by a
\* second step
AssignDefaults_Piecewise(names) ==
    IF names = None THEN [feature_names |-> Some(<< >>), pc |-> "assign_schema"]
                    ELSE [feature_names |-> Some(DefaultFeatureNames), pc |-> "inference"]

\* the assignment of the default feature names: what it stores and where the
\* handler goes on
AssignDefaults(names) == [feature_names |-> Some(DefaultFeatureNames), pc |-> "inference"]

AssignSchema(t) ==
    /\ At(t, "predict_careers", "assign_schema")
    /\ feature_names' = AssignDefaults(feature_names).feature_names
    /\ requests' = [requests EXCEPT ![t].pc = AssignDefaults(feature_names).pc]
    /\ UNCHANGED <<careers, features, model, label_encoder, scaler, startup, call, ret>>

\* the rest of MLPredictor.predict, over the feature names the adapter holds
Inference(t) ==
    LET r == requests[t]
    IN  /\ At(t, "predict_careers", "inference")
        /\ requests' =
               [requests EXCEPT ![t] =
                   [r EXCEPT !.ml_results =
                                 predict(model, label_encoder, feature_names, scaler,
                                         r.call.user_profile, r.call.top_k),
                             !.pc = "respond"]]
        /\ UNCHANGED <<engine, call, ret>>

\* predict_careers from the fusion to the response
RespondTo(t) ==
    LET r == requests[t]
    IN  /\ At(t, "predict_careers", "respond")
        /\ requests' =
               [requests EXCEPT ![t] =
                   [r EXCEPT !.pc = "done",
                             !.ret = Some(Respond(careers, r.call,
                                                  r.call.use_ml_model /\ is_model_loaded(model),
                                                  r.rule_based_results, r.ml_results))]]
        /\ UNCHANGED <<engine, call, ret>>

\* the /predict/explain route
explain_prediction(catalog, request) ==
    [career_id |-> request.career_id,
     explanation |-> explain_match(catalog, request.user_profile, request.career_id)]

ExplainPrediction(t) ==
    LET r == requests[t]
    IN  /\ At(t, "explain_prediction", "start")
        /\ requests' =
               [requests EXCEPT ![t] =
                   [r EXCEPT !.pc = "done",
                             !.ret = Some(explain_prediction(careers, r.call))]]
        /\ UNCHANGED <<engine, call, ret>>

ConcurrentInit == \E s \in ConcurrentStartupStates : Started(s)

ConcurrentNext ==
    \/ Arrive
    \/ \E t \in 1..Len(requests) :
           \/ RuleBased(t) \/ CheckSchema(t) \/ AssignSchema(t) \/ Inference(t)
           \/ RespondTo(t) \/ ExplainPrediction(t)

ConcurrentSpec == ConcurrentInit /\ [][ConcurrentNext]_vars

-----------------------------------------------------------------------------
(* Explanations for a broad range of profiles *)

\* the example profile with GPAs that put its score for a catalog career on
\* and just below 80, 65 and 50, and profiles with every rating of the
\* skills, besides the profiles used elsewhere
ExplainProfiles ==
    {[BaseProfile EXCEPT !.gpa = g] : g \in {78, 79, 109, 110}}
        \cup {[BaseProfile EXCEPT !.gpa = g, !.skills = << >>] : g \in {198, 199}}
        \cup SkillProfiles \cup EngineProfiles \cup EdgeProfiles

RequestExplainBroad ==
    \E p \in ExplainProfiles, c \in CareerIds :
        Request([career_id |-> c, op |-> "explain_match", user_profile |-> p])

ExplainNext == RequestExplainBroad \/ ExplainMatch

ExplainSpec == Init /\ [][ExplainNext]_vars

-----------------------------------------------------------------------------
(* Training-time preprocessing, which fixes the feature schema of the model *)

\* the target column of the training data
target_col == "career_label"

Columns(X) == {X.columns[i] : i \in 1..Len(X.columns)}

\* X[col] = values on a data frame: an existing column is overwritten in
\* place, a new one is added after the last column
AssignColumn(X, col, values) ==
    [columns |-> IF col \in Columns(X) THEN X.columns ELSE Append(X.columns, col),
     rows |-> [i \in 1..Len(X.rows) |->
                  [c \in Columns(X) \cup {col} |->
                      IF c = col THEN values[i] ELSE X.rows[i][c]]]]

\* X[col] / divisor
Divided(X, col, divisor) ==
    [i \in 1..Len(X.rows) |-> RDiv(X.rows[i][col], Int2Rat(divisor))]

\* for col in [...]: if col in X.columns: X[col] = X[col] / 100.0
RECURSIVE NormalizeScores(_, _)
NormalizeScores(X, cols) ==
    IF cols = << >> THEN X
    ELSE LET col == Head(cols)
         IN  NormalizeScores(IF col \in Columns(X)
                                 THEN AssignColumn(X, col, Divided(X, col, 100))
                                 ELSE X,
                             Tail(cols))

\* the academic score columns, in the order the loop visits them
ScoreColumns == <<"math_score", "science_score", "english_score">>

\* the GPA step: the column assigned to is col, which after the loop over the
\* score columns is still bound to the last of them
NormalizeGpa(X) ==
    LET col == ScoreColumns[Len(ScoreColumns)]
    IN  IF "gpa" \in Columns(X) THEN AssignColumn(X, col, Divided(X, "gpa", 4)) ELSE X

\* for col in X.columns: skill_ and interest_ columns are divided by 5.0
NormalizeRatings(X) ==
    [columns |-> X.columns,
     rows |-> [i \in 1..Len(X.rows) |->
                  [c \in Columns(X) |->
                      IF c \in DOMAIN SkillFeatures \cup DOMAIN InterestFeatures
                          THEN RDiv(X.rows[i][c], Int2Rat(5))
                          ELSE X.rows[i][c]]]]

\* the career labels the training data can hold, in sorted order
TrainingLabels == <<"Data Scientist", "Software Engineer", "Writer">>

\* LabelEncoder.fit_transform: the sorted distinct labels and the index (from
\* 0) of each row's label among them
fit_transform(y) ==
    LET classes == SelectSeq(TrainingLabels, LAMBDA l : \E i \in 1..Len(y) : y[i] = l)
    IN  [classes |-> classes,
         encoded |-> [i \in 1..Len(y) |->
                         (CHOOSE j \in 1..Len(classes) : classes[j] = y[i]) - 1]]

\* ModelTrainer.preprocess_data up to the split: the feature schema, the
\* normalized frame X and the encoded target, or the ValueError.  A cell that
\* is missing from a row is NaN, which fillna turns into 0.  The split and the
\* standardization that follow take the rows of X as they are here.
preprocess_data(df) ==
    IF target_col \notin Columns(df) THEN Raised
    ELSE LET feature_cols == SelectSeq(df.columns, LAMBDA col : col # target_col)
             filled == [columns |-> feature_cols,
                        rows |-> [i \in 1..Len(df.rows) |->
                                     [c \in Columns([columns |-> feature_cols]) |->
                                         Get(df.rows[i], c, Int2Rat(0))]]]
             y == [i \in 1..Len(df.rows) |-> df.rows[i][target_col]]
         IN  Ok([X |-> NormalizeRatings(NormalizeGpa(NormalizeScores(filled, ScoreColumns))),
                 feature_names |-> feature_cols,
                 y_encoded |-> fit_transform(y)])

\* the training cells a profile gives for the columns of a schema: scores,
\* GPA and ratings as the profile states them
ProfileCells(schema, user_profile) ==
    LET skills == Get(user_profile, "skills", << >>)
        interests == Get(user_profile, "interests", << >>)
        Stated(c) ==
            \/ c \in {"math_score", "science_score", "english_score", "gpa"}
                  /\ c \in DOMAIN user_profile
            \/ c \in DOMAIN SkillFeatures /\ SkillFeatures[c] \in DOMAIN skills
            \/ c \in DOMAIN InterestFeatures /\ InterestFeatures[c] \in DOMAIN interests
    IN  [c \in {schema[i] : i \in {j \in 1..Len(schema) : Stated(schema[j])}} |->
            IF c = "gpa" THEN Dec(user_profile.gpa)
            ELSE IF c \in DOMAIN SkillFeatures THEN Int2Rat(skills[SkillFeatures[c]])
            ELSE IF c \in DOMAIN InterestFeatures
                THEN Int2Rat(interests[InterestFeatures[c]])
            ELSE Int2Rat(user_profile[c])]

\* a training row: the cells of a profile and its career label
TrainingRow(schema, user_profile, label) ==
    LET cells == ProfileCells(schema, user_profile)
    IN  [c \in DOMAIN cells \cup {target_col} |->
            IF c = target_col THEN label ELSE cells[c]]

\* the feature columns of the training files
TrainingSchemas ==
    { <<"math_score", "science_score", "english_score", "gpa", "skill_programming",
        "interest_technology">>,
      <<"math_score", "science_score", "gpa", "skill_programming">>,
      <<"math_score", "english_score", "skill_programming", "interest_technology">> }

TrainingProfiles == EngineProfiles \cup EdgeProfiles

\* training data of one or two rows, and data without the target column
TrainingFrames ==
    {[columns |-> Append(schema, target_col),
      rows |-> <<TrainingRow(schema, p, "Software Engineer")>>] :
        schema \in TrainingSchemas, p \in TrainingProfiles}
    \cup {[columns |-> Append(schema, target_col),
           rows |-> <<TrainingRow(schema, p, "Writer"),
                      TrainingRow(schema, BaseProfile, "Data Scientist")>>] :
             schema \in TrainingSchemas, p \in TrainingProfiles}
    \cup {[columns |-> schema, rows |-> <<ProfileCells(schema, BaseProfile)>>] :
             schema \in TrainingSchemas}

RequestPreprocessData ==
    \E df \in TrainingFrames : Request([df |-> df, op |-> "preprocess_data"])

PreprocessData ==
    /\ Serving("preprocess_data")
    /\ ret' = Returned(preprocess_data(call.df))
    /\ UNCHANGED <<engine, call, requests>>

\* the artifact a training run on a schema saves: the adapter is loaded with
\* the feature_names the preprocessing fixed
TrainedAdapter(schema) ==
    [FullAdapter EXCEPT !.feature_names = Some(schema),
                        !.scaler.n_features_in = Len(schema)]

TrainingStartupStates ==
    {Startup(LoadedCatalog, Artifact(TrainedAdapter(schema))) : schema \in TrainingSchemas}

TrainingInit == \E s \in TrainingStartupStates : Started(s)

TrainingNext ==
    \/ RequestPreprocessData \/ PreprocessData
    \/ RequestPrepareFeatures \/ PrepareFeatures

TrainingSpec == TrainingInit /\ [][TrainingNext]_vars

-----------------------------------------------------------------------------
(* The scorer applied to a broad range of profiles *)

ScoreCalls ==
    {[career_id |-> c, op |-> "calculate_match_score", user_profile |-> p] :
        p \in ScoreProfiles, c \in CareerIds}

ScoreInit == Init /\ model = None

ScoreRequest == \E c \in ScoreCalls : Request(c)

ScoreNext == ScoreRequest \/ CalculateMatchScore

ScoreSpec == ScoreInit /\ [][ScoreNext]_vars

-----------------------------------------------------------------------------
(* Properties *)

\* calculate_match_score has returned, and what it was asked
Scored == call.op = "calculate_match_score" /\ Done
ScoredCareer == Lookup(careers, call.career_id)
Matched == Scored /\ ret.value # None

ValidScores(user_profile) ==
    \A f \in {"math_score", "science_score", "english_score"} :
        Get(user_profile, f, 0) \in 0..100

WeightsOf(career) == Get(career, "academic_weights", DefaultWeights)

NonNegativeWeights(career) ==
    \A subject \in DOMAIN WeightsOf(career) : WeightsOf(career)[subject] >= 0

\* C1: for every profile with scores in [0,100] and every catalog career with
\* non-negative academic weights (summing to 1 or not, fully or partly
\* specified), score_breakdown.academic lies in [0,30].
C1_AcademicInRange ==
    (Matched /\ ValidScores(call.user_profile) /\ NonNegativeWeights(ScoredCareer))
        => ret.value.score_breakdown.academic \in 0..3000

\* C2: score_breakdown.skills lies in [0,40] and score_breakdown.interests in
\* [0,30] for every profile and catalog career, whatever the user's ratings
\* (missing, zero, negative, above 5) and also when nothing is required.
C2_SkillsInterestsInRange ==
    Matched => /\ ret.value.score_breakdown.skills \in 0..4000
               /\ ret.value.score_breakdown.interests \in 0..3000

\* C2 witness: ratings above 5 push the sum of the skill contributions above
\* 40 and the sub-score returned is 40.
C2_Witness ==
    /\ Matched
    /\ \E s \in DOMAIN Get(call.user_profile, "skills", << >>) :
           call.user_profile.skills[s] > 5
    /\ RLt(Int2Rat(40), SkillScore(call.user_profile, ScoredCareer))
    /\ ret.value.score_breakdown.skills = 4000

\* C3: match_score lies in [0,100] whatever the sub-scores and the GPA
\* penalty or bonus.
C3_MatchScoreInRange == Matched => ret.value.match_score \in 0..10000

\* C3 witness: the sub-scores alone add up to more than 100 and the
\* match_score returned is 100.
C3_Witness ==
    /\ Matched
    /\ ret.value.score_breakdown.academic + ret.value.score_breakdown.skills
           + ret.value.score_breakdown.interests > 10000
    /\ ret.value.match_score = 10000

\* C4: scoring is idempotent: whatever operations have run since startup,
\* calculate_match_score returns for (profile, career) what it returns in the
\* state startup left behind, so any two calls agree.
C4_Idempotent ==
    Scored => ret.value = calculate_match_score(startup.catalog.careers,
                                                call.user_profile, call.career_id)

\* C4 witness: a score returned after MLPredictor.predict has run (and has
\* stored the default feature names in the adapter).
C4_Witness ==
    /\ Matched
    /\ feature_names # startup.adapter.feature_names

\* the skills whose rating in the profile is below the level the career requires
SkillsBelow(user_profile, career) ==
    LET required_skills == Get(career, "required_skills", << >>)
    IN  {i \in 1..Len(required_skills) :
            Get(Get(user_profile, "skills", << >>), required_skills[i].key, 0)
                < required_skills[i].value}

\* the profile with the rating of one skill raised by one step
Raised1(user_profile, skill) ==
    LET user_skills == Get(user_profile, "skills", << >>)
    IN  With(user_profile, "skills", With(user_skills, skill, Get(user_skills, skill, 0) + 1))

\* C5: raising by one step a single skill rating that is below the required
\* level, all else unchanged, never decreases score_breakdown.skills.
C5_Monotone ==
    Matched =>
        \A i \in SkillsBelow(call.user_profile, ScoredCareer) :
            SkillsSubScore(Raised1(call.user_profile, ScoredCareer.required_skills[i].key),
                           ScoredCareer)
                >= ret.value.score_breakdown.skills

\* C5 witness: a rated skill one step below its requirement, so that the step
\* takes it from partial to full credit.
C5_Witness ==
    /\ Matched
    /\ \E i \in SkillsBelow(call.user_profile, ScoredCareer) :
           LET skill == ScoredCareer.required_skills[i].key
           IN  /\ skill \in DOMAIN Get(call.user_profile, "skills", << >>)
               /\ call.user_profile.skills[skill] >= 1
               /\ call.user_profile.skills[skill] + 1 = ScoredCareer.required_skills[i].value
               /\ ret.value.score_breakdown.skills > 0

\* combine_predictions has returned
Combined == call.op = "combine_predictions" /\ Done

Ids(results) == {results[i].career_id : i \in 1..Len(results)}

EntriesFor(results, career_id) == {i \in 1..Len(results) : results[i].career_id = career_id}

\* C6: combine_predictions(R, []) returns one entry per rule result, with
\* ml_score 0, rule_score the result's match_score and combined_score
\* rule_score * 0.4.
C6_RuleOnly ==
    (Combined /\ call.ml_based = << >>) =>
        /\ Len(ret.value) = Len(call.rule_based)
        /\ \A j \in 1..Len(call.rule_based) :
               /\ Cardinality(EntriesFor(ret.value, call.rule_based[j].career_id)) = 1
               /\ \A i \in EntriesFor(ret.value, call.rule_based[j].career_id) :
                      /\ ret.value[i].ml_score = 0
                      /\ ret.value[i].rule_score = call.rule_based[j].match_score
                      /\ ret.value[i].combined_score
                             = RMul(Points(ret.value[i].rule_score), Rat(4, 10))

\* C6 witness: several rule results, of which one has a positive score,
\* combined with no model result.
C6_Witness ==
    /\ Combined
    /\ call.ml_based = << >>
    /\ Len(call.rule_based) >= 2
    /\ \E i \in 1..Len(ret.value) : ret.value[i].rule_score > 0

\* C7: combine_predictions([], M) returns for each model result an entry with
\* rule_score 0, ml_score = confidence * 100 and combined_score = ml_score *
\* 0.6, also when two predictions of M resolve to the same identifier.
C7_ModelOnly ==
    (Combined /\ call.rule_based = << >>) =>
        \A j \in 1..Len(call.ml_based) :
            \E i \in EntriesFor(ret.value, call.ml_based[j].career_id) :
                /\ ret.value[i].rule_score = 0
                /\ ret.value[i].ml_score = call.ml_based[j].confidence
                /\ ret.value[i].combined_score
                       = RMul(Points(ret.value[i].ml_score), Rat(6, 10))

\* C8: the identifiers returned by combine_predictions(R, M) are exactly
\* those of R and of M, and none is returned twice.
C8_Union ==
    Combined =>
        /\ Ids(ret.value) = Ids(call.rule_based) \cup Ids(call.ml_based)
        /\ \A id \in Ids(ret.value) : Cardinality(EntriesFor(ret.value, id)) = 1

\* C8 witness: M names an identifier R has and an identifier R does not
\* have, so that the result is shorter than R and M together.
C8_Witness ==
    /\ Combined
    /\ Len(call.rule_based) >= 2
    /\ Ids(call.ml_based) \cap Ids(call.rule_based) # {}
    /\ Ids(call.ml_based) \ Ids(call.rule_based) # {}
    /\ Len(ret.value) = Len(call.rule_based) + 1

\* predict_careers has returned
Predicted == call.op = "predict_careers" /\ Done

\* the recommendations without the nepal_info the include_details loop adds
Undecorated(recommendations) ==
    [i \in 1..Len(recommendations) |-> Without(recommendations[i], "nepal_info")]

\* C9: when the adapter reports no model loaded, the hybrid prediction with
\* use_model = true reports "rule_based" and returns the entries of
\* get_top_careers(profile, k), in the same order with the same scores.
C9_Fallback ==
    (Predicted /\ call.use_ml_model /\ ~is_model_loaded(model)) =>
        /\ ret.value.method_used = "rule_based"
        /\ Undecorated(ret.value.recommendations)
               = get_top_careers(careers, call.user_profile, call.top_k)
        /\ ~call.include_details =>
               ret.value.recommendations
                   = get_top_careers(careers, call.user_profile, call.top_k)

\* C9 witness: a hybrid request served without a model that returned
\* several recommendations.
C9_Witness ==
    /\ Predicted
    /\ call.use_ml_model
    /\ ~is_model_loaded(model)
    /\ Len(ret.value.recommendations) >= 2

\* the career of the scenario of C10
ScenarioCareer(career) ==
    /\ Get(career, "required_skills", << >>)
           = << [key |-> "programming", value |-> 4],
                [key |-> "analytical_thinking", value |-> 4] >>
    /\ Get(career, "required_interests", << >>) = << [key |-> "technology", value |-> 4] >>
    /\ Get(career, "academic_weights", << >>) = [english |-> 30, math |-> 40, science |-> 30]
    /\ Get(career, "min_gpa", 250) = 300

Scenario == Matched /\ call.user_profile = BaseProfile /\ ScenarioCareer(ScoredCareer)

\* C10 as stated: the scenario yields academic 24.15, skills 36, interests 30
\* and match_score 93.15.
C10_AsStated ==
    Scenario => /\ ret.value.score_breakdown.academic = 2415
                /\ ret.value.score_breakdown.skills = 3600
                /\ ret.value.score_breakdown.interests = 3000
                /\ ret.value.match_score = 9315

\* C10 amended: the scenario yields academic 25.05, skills 36, interests 30
\* and match_score 94.05.
C10_Scenario ==
    Scenario => /\ ret.value.score_breakdown.academic = 2505
                /\ ret.value.score_breakdown.skills = 3600
                /\ ret.value.score_breakdown.interests = 3000
                /\ ret.value.match_score = 9405

\* C10 witness: the scenario has been scored.
C10_Witness == Scenario /\ ret.value.match_score > 0

\* get_top_careers has returned
Ranked == call.op = "get_top_careers" /\ Done

\* the match_score of a catalog career for the profile of the call
ScoreOf(career_id) ==
    calculate_match_score(careers, call.user_profile, career_id).match_score

\* career a comes before career b in the full list: higher score first, equal
\* scores in catalog iteration order
RankedBefore(a, b) ==
    \/ ScoreOf(a) > ScoreOf(b)
    \/ ScoreOf(a) = ScoreOf(b) /\ ItemAt(careers, a) < ItemAt(careers, b)

\* C11: for k smaller than the catalog size, get_top_careers(profile, k)
\* returns the first k entries of the full list of catalog careers sorted by
\* match_score descending with equal scores in catalog iteration order, and no
\* career identifier twice.
C11_TopKPrefix ==
    (Ranked /\ call.top_k < Len(careers)) =>
        LET ids == [i \in 1..Len(ret.value) |-> ret.value[i].career_id]
            returned == {ids[i] : i \in 1..Len(ids)}
        IN  /\ Len(ret.value) = call.top_k
            /\ \A i \in 1..Len(ids) :
                   /\ HasKey(careers, ids[i])
                   /\ ret.value[i]
                          = calculate_match_score(careers, call.user_profile, ids[i])
            /\ \A i, j \in 1..Len(ids) : i < j => RankedBefore(ids[i], ids[j])
            /\ \A c \in KeySet(careers) \ returned :
                   \A i \in 1..Len(ids) : RankedBefore(ids[i], c)

\* C11 witness: the list returned ends with two careers of equal positive
\* score and a career of that score is left out.
C11_Witness ==
    /\ Ranked
    /\ call.top_k < Len(careers)
    /\ Len(ret.value) >= 2
    /\ ret.value[Len(ret.value)].match_score > 0
    /\ ret.value[Len(ret.value) - 1].match_score = ret.value[Len(ret.value)].match_score
    /\ \E c \in KeySet(careers) :
           /\ \A i \in 1..Len(ret.value) : ret.value[i].career_id # c
           /\ ScoreOf(c) = ret.value[Len(ret.value)].match_score

\* the profile with every missing field given the value the claim assigns it:
\* 0 for a score, the empty map for the ratings
Defaulted(user_profile) ==
    [f \in ProfileFields |->
        IF f \in DOMAIN user_profile THEN user_profile[f]
        ELSE IF f \in {"skills", "interests"} THEN << >> ELSE 0]

\* C12: for a career of the catalog and a profile with any subset of its
\* fields missing, calculate_match_score returns a MatchResult, the one of
\* the profile in which each missing score is 0 and each missing rating map
\* is empty.
C12_MissingFields ==
    (Scored /\ HasKey(careers, call.career_id)) =>
        /\ ret.value # None
        /\ ret.value = calculate_match_score(careers, Defaulted(call.user_profile),
                                             call.career_id)

\* C12 witness: a profile without math_score and without skills has been
\* scored, and what it does hold has earned it points.
C12_Witness ==
    /\ Matched
    /\ "math_score" \notin DOMAIN call.user_profile
    /\ "skills" \notin DOMAIN call.user_profile
    /\ "science_score" \in DOMAIN call.user_profile
    /\ ret.value.score_breakdown.academic > 0
    /\ ret.value.score_breakdown.skills = 0

\* explain_match has returned
Explained == call.op = "explain_match" /\ Done

\* the call names a career that is not in the catalog
UnknownCareer == ~HasKey(careers, call.career_id)

\* C13: for a career identifier that is not in the catalog,
\* calculate_match_score returns the absent value and explain_match the error
\* value "Career not found", and the catalog is what startup left.
C13_NotFound ==
    /\ (Scored /\ UnknownCareer) => ret.value = None
    /\ (Explained /\ UnknownCareer) => ret.value = [error |-> "Career not found"]
    /\ ((Scored \/ Explained) /\ UnknownCareer) =>
           /\ careers = startup.catalog.careers
           /\ features = startup.catalog.features

\* C13 witness: explain_match has answered for a career the loaded catalog
\* does not hold.
C13_Witness ==
    /\ Explained
    /\ UnknownCareer
    /\ Len(careers) > 1
    /\ DOMAIN ret.value = {"error"}

\* MLPredictor.predict has returned
PredictReturned == call.op = "predict" /\ Done

\* the feature schema in use once _prepare_features has run
SchemaInUse == PreparedFeatureNames(feature_names).some

\* a step of the inference for the call is bound to fail: a null rating map
\* is consulted, the scaler or the classifier was fitted on another number of
\* features, there is no label space, or more classes are looked up than the
\* label space knows
FeatureBuildingFails ==
    \E i \in 1..Len(SchemaInUse) : FeatureRaises(SchemaInUse[i], call.user_profile)
ScalingFails == scaler # None /\ scaler.n_features_in # Len(SchemaInUse)
PredictProbaFails == model.n_features # Len(SchemaInUse)
LabelLookupFails ==
    \/ label_encoder = None
    \/ /\ Len(label_encoder.classes) < call.top_k
       /\ Len(label_encoder.classes) < Len(model.high)
InferenceFails ==
    FeatureBuildingFails \/ ScalingFails \/ PredictProbaFails \/ LabelLookupFails

\* C14: is_model_loaded is false whenever the artifact is absent or could not
\* be loaded, and predict returns the empty list when no model is loaded and
\* when a step of the inference fails.
C14_NeverPropagates ==
    /\ (~startup.artifact.exists \/ ~startup.artifact.readable) => ~is_model_loaded(model)
    /\ (PredictReturned /\ ~is_model_loaded(model)) => ret.value = << >>
    /\ (PredictReturned /\ is_model_loaded(model) /\ InferenceFails) => ret.value = << >>

\* C14 witness: a loaded model was asked for all its classes, its label
\* space is too short for them, and nothing was returned.
C14_Witness ==
    /\ PredictReturned
    /\ is_model_loaded(model)
    /\ ~FeatureBuildingFails /\ ~ScalingFails /\ ~PredictProbaFails
    /\ label_encoder # None
    /\ LabelLookupFails
    /\ ret.value = << >>

\* the predictions the model adapter gave to the hybrid request served, the
\* empty list when it was not consulted
Consulted == call.use_ml_model /\ is_model_loaded(model)
ModelAnswer ==
    IF Consulted
        THEN predict(model, label_encoder, feature_names, scaler, call.user_profile,
                     call.top_k)
        ELSE << >>

\* C15: the hybrid prediction reports "hybrid" exactly when the model was
\* consulted and returned at least one prediction, and "rule_based" in every
\* other case.
C15_MethodUsed ==
    Predicted =>
        /\ ret.value.method_used \in {"hybrid", "rule_based"}
        /\ ret.value.method_used = "hybrid" <=> (Consulted /\ ModelAnswer # << >>)

\* C16: when the model is loaded but predict yields the empty list, the
\* hybrid prediction returns the careers of get_top_careers(profile, k), in
\* the same order with the same match_score values.
C16_FailureFallback ==
    (Predicted /\ Consulted /\ ModelAnswer = << >>) =>
        LET rule_based == get_top_careers(careers, call.user_profile, call.top_k)
            recommendations == ret.value.recommendations
        IN  /\ Len(recommendations) = Len(rule_based)
            /\ \A i \in 1..Len(rule_based) :
                   /\ recommendations[i].career_id = rule_based[i].career_id
                   /\ recommendations[i].match_score = rule_based[i].match_score

\* C17: the list returned by the hybrid prediction for top_k = k has at most
\* k entries, in rule-only mode and in hybrid mode.
C17_AtMostK == Predicted => Len(ret.value.recommendations) <= call.top_k

\* MLPredictor._prepare_features has returned
Prepared == call.op = "prepare_features" /\ Done

\* the rating maps of the profile, where present, are maps
WellTyped(user_profile) ==
    /\ IsMap(Get(user_profile, "skills", << >>))
    /\ IsMap(Get(user_profile, "interests", << >>))

\* the value of the profile a schema entry stands for, as a fraction of its
\* natural maximum; None when the profile has no such value
Corresponding(feature_name, user_profile) ==
    LET skills == Get(user_profile, "skills", << >>)
        interests == Get(user_profile, "interests", << >>)
    IN  CASE feature_name \in {"math_score", "science_score", "english_score"} ->
                 IF feature_name \in DOMAIN user_profile
                     THEN Some(Rat(user_profile[feature_name], 100))
                     ELSE None
          [] feature_name = "gpa" ->
                 IF "gpa" \in DOMAIN user_profile
                     THEN Some(Rat(user_profile.gpa, 400))
                     ELSE None
          [] feature_name \in DOMAIN SkillFeatures ->
                 IF SkillFeatures[feature_name] \in DOMAIN skills
                     THEN Some(Rat(skills[SkillFeatures[feature_name]], 5))
                     ELSE None
          [] feature_name \in DOMAIN InterestFeatures ->
                 IF InterestFeatures[feature_name] \in DOMAIN interests
                     THEN Some(Rat(interests[InterestFeatures[feature_name]], 5))
                     ELSE None
          [] OTHER ->
                 IF feature_name \in DOMAIN skills THEN Some(Rat(skills[feature_name], 5))
                 ELSE IF feature_name \in DOMAIN interests
                     THEN Some(Rat(interests[feature_name], 5))
                 ELSE None

\* C18: for every profile, with fields, skills or interests missing or not,
\* the feature builder does not raise and returns one value per entry of the
\* feature schema, in schema order; an entry with no corresponding profile
\* value yields 0.
C18_OnePerEntry ==
    (Prepared /\ WellTyped(call.user_profile)) =>
        /\ ret.value.ok
        /\ Len(ret.value.value) = Len(SchemaInUse)
        /\ \A i \in 1..Len(SchemaInUse) :
               LET given == Corresponding(SchemaInUse[i], call.user_profile)
               IN  ret.value.value[i] = IF given = None THEN Int2Rat(0) ELSE given.some

\* C18 witness: a vector built for a profile without skills over a schema
\* with direct, prefixed and unknown entries, with both zero and nonzero
\* values.
C18_Witness ==
    /\ Prepared
    /\ "skills" \notin DOMAIN call.user_profile
    /\ \E i \in 1..Len(SchemaInUse) : SchemaInUse[i] = "certification_count"
    /\ ret.value.ok
    /\ \E i, j \in 1..Len(ret.value.value) :
           /\ ret.value.value[i] = Int2Rat(0)
           /\ ret.value.value[j] # Int2Rat(0)

\* C19: after any sequence of requests the catalog (careers, features) and
\* every field of the model adapter (model, label space, feature schema,
\* scaler) equal their values at the end of startup.
C19_ReadOnly ==
    /\ careers = startup.catalog.careers
    /\ features = startup.catalog.features
    /\ model = startup.adapter.model
    /\ label_encoder = startup.adapter.label_encoder
    /\ feature_names = startup.adapter.feature_names
    /\ scaler = startup.adapter.scaler

\* what the route returns for a request served alone in the state left by
\* startup
RunAlone(request) ==
    IF request.op = "predict_careers"
        THEN predict_careers(startup.catalog.careers, startup.adapter.model,
                             startup.adapter.label_encoder, startup.adapter.feature_names,
                             startup.adapter.scaler, request)
        ELSE explain_prediction(startup.catalog.careers, request)

\* C20: under every interleaving of prediction and explanation handlers on
\* one catalog and one model adapter, each handler returns what its request
\* returns when served alone in the state left by startup.
C20_AsIfAlone ==
    \A t \in 1..Len(requests) :
        requests[t].pc = "done" => requests[t].ret = Some(RunAlone(requests[t].call))

\* C20 witness: a handler found no feature schema and has not yet stored the
\* default one, while another, which stored it in the meantime, has
\* returned a hybrid response with model predictions.
C20_Witness ==
    \E t, u \in 1..Len(requests) :
        /\ startup.adapter.feature_names = None
        /\ feature_names # None
        /\ requests[t].pc = "assign_schema"
        /\ requests[u].pc = "done"
        /\ requests[u].call.op = "predict_careers"
        /\ requests[u].ml_results # << >>
        /\ requests[u].ret.some.method_used = "hybrid"

\* the sum of a sequence of rationals
RECURSIVE RSum(_)
RSum(terms) ==
    IF terms = << >> THEN Int2Rat(0) ELSE RAdd(Head(terms), RSum(Tail(terms)))

\* the skills the scored career requires and the rating the profile gives
\* the i-th of them, 0 when it gives none
RequiredSkills == Get(ScoredCareer, "required_skills", << >>)
UserRating(i) == Get(Get(call.user_profile, "skills", << >>), RequiredSkills[i].key, 0)

\* (user_rating/5) x (40/n)
FullCredit(user_rating, n) == RMul(Rat(user_rating, 5), Rat(40, n))

\* the contribution of one required skill as the claim words it: below the
\* requirement, half of the full proportional credit, scaled by
\* user_rating/required_rating
StatedCredit(user_rating, required_rating, n) ==
    IF user_rating >= required_rating THEN FullCredit(user_rating, n)
    ELSE IF user_rating > 0
        THEN RMul(RMul(Rat(1, 2), FullCredit(user_rating, n)),
                  Rat(user_rating, required_rating))
    ELSE Int2Rat(0)

\* the contribution with the partial credit taken from the skill's share:
\* (user_rating/required_rating) x (40/n) x 1/2
ShareCredit(user_rating, required_rating, n) ==
    IF user_rating >= required_rating THEN FullCredit(user_rating, n)
    ELSE IF user_rating > 0
        THEN RMul(RMul(Rat(user_rating, required_rating), Rat(40, n)), Rat(1, 2))
    ELSE Int2Rat(0)

\* the sum of the contributions, clamped to 40, to 2 decimals
SkillsFrom(Credit(_, _, _)) ==
    Round(RMin(RSum([i \in 1..Len(RequiredSkills) |->
                        Credit(UserRating(i), RequiredSkills[i].value, Len(RequiredSkills))]),
               Int2Rat(40)),
          100)

\* C21 as stated: a required skill rated below its requirement contributes
\* half of (user_rating/5) x (40/n), scaled by user_rating/required_rating.
C21_AsStated == Matched => ret.value.score_breakdown.skills = SkillsFrom(StatedCredit)

\* C21: with n required skills, each contributes (user_rating/5) x (40/n)
\* when user_rating >= required_rating, (user_rating/required_rating) x
\* (40/n) x 1/2 when 0 < user_rating < required_rating, and zero otherwise;
\* score_breakdown.skills is the sum clamped to at most 40, to 2 decimals.
C21_SkillFormula == Matched => ret.value.score_breakdown.skills = SkillsFrom(ShareCredit)

\* C21 witness: a career scored for a profile that meets one required skill,
\* has a positive rating below another, and stays below the cap.
C21_Witness ==
    /\ Matched
    /\ \E i, j \in 1..Len(RequiredSkills) :
           /\ UserRating(i) >= RequiredSkills[i].value
           /\ UserRating(j) > 0
           /\ UserRating(j) < RequiredSkills[j].value
    /\ ret.value.score_breakdown.skills \in 1..3999

\* the GPA of the scored profile and the minimum of the scored career, in
\* hundredths
UserGpa == Get(call.user_profile, "gpa", 0)
MinGpa == Get(ScoredCareer, "min_gpa", 250)

\* the points the GPA adds to the total: -(min_gpa - gpa) x 5, +3 or nothing
StatedAdjustment ==
    IF UserGpa < MinGpa THEN Rat(0 - (MinGpa - UserGpa) * 5, 100)
    ELSE IF UserGpa >= MinGpa + 50 THEN Int2Rat(3)
    ELSE Int2Rat(0)

\* the sum of the three sub-scores returned, in points
SubScoreSum ==
    Rat(ret.value.score_breakdown.academic + ret.value.score_breakdown.skills
            + ret.value.score_breakdown.interests,
        100)

\* C22: match_score is the sum of the three sub-scores, reduced by
\* (min_gpa - gpa) x 5 when gpa < min_gpa, increased by 3 when
\* gpa >= min_gpa + 0.5, unchanged in between, then clamped to [0,100]; the
\* sub-scores of score_breakdown are the same whatever the GPA.
C22_GpaAdjustment ==
    Matched =>
        /\ ret.value.match_score
               = Round(RMax(Int2Rat(0),
                            RMin(Int2Rat(100), RAdd(SubScoreSum, StatedAdjustment))),
                       100)
        /\ \A g \in Gpas :
               calculate_match_score(careers, With(call.user_profile, "gpa", g),
                                     call.career_id).score_breakdown
                   = ret.value.score_breakdown

\* C22 witness: a GPA exactly 0.5 above the minimum earns the bonus, which
\* shows in full in the match_score.
C22_Witness ==
    /\ Matched
    /\ UserGpa = MinGpa + 50
    /\ ret.value.match_score
           = ret.value.score_breakdown.academic + ret.value.score_breakdown.skills
                 + ret.value.score_breakdown.interests + 300
    /\ ret.value.match_score < 10000

\* the probabilities the classifier gave for the call served, and the class
\* index behind each prediction returned
Probabilities ==
    PredictProba(model, ScaledFeatures(feature_names, scaler, call.user_profile).value).value
ClassIndex(prediction) ==
    CHOOSE idx \in 0..(Len(label_encoder.classes) - 1) :
        label_encoder.classes[idx + 1] = prediction.career_name
Selected == {ClassIndex(ret.value[i]) : i \in 1..Len(ret.value)}

\* C23: predict returns the classes with the k highest probabilities in
\* descending order of probability; of two classes with equal probability
\* the one with the lower class index is selected first and listed first.
C23_TopKTies ==
    (PredictReturned /\ ret.value # << >>) =>
        /\ Len(ret.value) = IF call.top_k < Len(Probabilities) THEN call.top_k
                                                                 ELSE Len(Probabilities)
        /\ \A i, j \in 1..Len(ret.value) :
               i < j =>
                   LET a == ClassIndex(ret.value[i])
                       b == ClassIndex(ret.value[j])
                   IN  /\ RLe(Probabilities[b + 1], Probabilities[a + 1])
                       /\ Probabilities[a + 1] = Probabilities[b + 1] => a < b
        /\ \A a \in Selected, c \in (0..(Len(Probabilities) - 1)) \ Selected :
               /\ RLe(Probabilities[c + 1], Probabilities[a + 1])
               /\ Probabilities[a + 1] = Probabilities[c + 1] => a < c

\* the values a result list gives for an identifier under a field, 0 when it
\* has no result for the identifier
ValuesFor(results, career_id, field) ==
    IF EntriesFor(results, career_id) = {} THEN {0}
    ELSE {results[i][field] : i \in EntriesFor(results, career_id)}

\* C24: every entry of combine_predictions(R, M, rule_weight, ml_weight) has
\* combined_score = rule_score x rule_weight + ml_score x ml_weight, with
\* ml_score the confidence x 100 of the model result for its identifier (0 if
\* none) and rule_score the match_score of the rule result (0 if none), also
\* when M holds several predictions with the same identifier.
C24_CombinedScore ==
    Combined =>
        \A i \in 1..Len(ret.value) :
            LET entry == ret.value[i]
            IN  /\ entry.rule_score
                       \in ValuesFor(call.rule_based, entry.career_id, "match_score")
                /\ entry.ml_score \in ValuesFor(call.ml_based, entry.career_id, "confidence")
                /\ entry.combined_score
                       = RAdd(RMul(Points(entry.rule_score), RuleWeight),
                              RMul(Points(entry.ml_score), MlWeight))

\* the position of the first result for an identifier in a result list
FirstFor(results, career_id) ==
    CHOOSE i \in EntriesFor(results, career_id) :
        \A j \in EntriesFor(results, career_id) : i <= j

\* when the accumulator of an identifier was created: with the rule results,
\* in input order, or after them with the model results, in input order
InsertionRank(career_id) ==
    IF career_id \in Ids(call.rule_based) THEN FirstFor(call.rule_based, career_id)
    ELSE Len(call.rule_based) + FirstFor(call.ml_based, career_id)

\* C25: the list returned by combine_predictions is in descending order of
\* combined_score, entries with equal combined_score are in the order their
\* accumulators were created, and every match_score is the combined_score
\* rounded to 2 decimals.
C25_StableOrder ==
    Combined =>
        /\ \A i, j \in 1..Len(ret.value) :
               i < j =>
                   /\ RLe(ret.value[j].combined_score, ret.value[i].combined_score)
                   /\ ret.value[i].combined_score = ret.value[j].combined_score =>
                          InsertionRank(ret.value[i].career_id)
                              < InsertionRank(ret.value[j].career_id)
        /\ \A i \in 1..Len(ret.value) :
               ret.value[i].match_score = Round(ret.value[i].combined_score, 100)

\* C25 witness: a rule result and a model-only result with the same positive
\* combined_score, below an entry with a higher one.
C25_Witness ==
    /\ Combined
    /\ \E h, i, j \in 1..Len(ret.value) :
           /\ h < i /\ i < j
           /\ RLt(ret.value[i].combined_score, ret.value[h].combined_score)
           /\ ret.value[i].combined_score = ret.value[j].combined_score
           /\ RLt(Int2Rat(0), ret.value[i].combined_score)
           /\ ret.value[i].career_id \in Ids(call.rule_based)
           /\ ret.value[j].career_id \notin Ids(call.rule_based)

\* the results in what the operation served handed to its caller
Handed ==
    IF Matched THEN <<ret.value>>
    ELSE IF Ranked \/ Combined THEN ret.value
    ELSE IF Predicted THEN ret.value.recommendations
    ELSE << >>

\* C26: in every result handed to the caller confidence equals
\* match_score / 100, for the results of calculate_match_score and for those
\* of combine_predictions alike.
C26_Confidence ==
    \A i \in 1..Len(Handed) :
        Rat(Handed[i].confidence, 10000) = RDiv(Points(Handed[i].match_score), Int2Rat(100))

\* explain_match has answered for a career of the catalog, and the
\* match_score of the rule-based result for the call
ExplainedCareer == Explained /\ ~UnknownCareer
Recomputed == calculate_match_score(careers, call.user_profile, call.career_id).match_score

\* C27: the summary of explain_match follows the match_score of the
\* recomputed rule-based result in four bands: excellent from 80, good from
\* 65 to below 80, moderate from 50 to below 65, low below 50.
C27_SummaryBands ==
    ExplainedCareer =>
        /\ ret.value.summary = "excellent" <=> Recomputed >= 8000
        /\ ret.value.summary = "good" <=> (Recomputed >= 6500 /\ Recomputed < 8000)
        /\ ret.value.summary = "moderate" <=> (Recomputed >= 5000 /\ Recomputed < 6500)
        /\ ret.value.summary = "low" <=> Recomputed < 5000

\* C27 witness: an explanation for a score of exactly 65, the lowest good
\* match.
C27_Witness ==
    /\ ExplainedCareer
    /\ Recomputed = 6500
    /\ ret.value.summary = "good"

\* the skill and GPA recommendations of the explanation returned
SkillRecommendations ==
    SelectSeq(ret.value.recommendations, LAMBDA rec : rec.kind = "develop_skill")
GpaRecommendations ==
    SelectSeq(ret.value.recommendations, LAMBDA rec : rec.kind = "improve_gpa")

\* the gaps of the required skills that are rated below requirement and have
\* no recommendation
GapsLeftOut ==
    {RequiredSkills[i].value - UserRating(i) :
        i \in {j \in 1..Len(RequiredSkills) :
                  /\ UserRating(j) < RequiredSkills[j].value
                  /\ \A r \in 1..Len(SkillRecommendations) :
                         SkillRecommendations[r].skill # Title(RequiredSkills[j].key)}}

\* C28: the recommendations of explain_match hold at most 2 skill
\* recommendations, which are for the skills with the largest gaps among the
\* skills below requirement, and one GPA recommendation exactly when the GPA
\* is below the career's min_gpa.
C28_LargestGaps ==
    ExplainedCareer =>
        /\ Len(SkillRecommendations) <= 2
        /\ \A r \in 1..Len(SkillRecommendations) :
               \A gap \in GapsLeftOut :
                   SkillRecommendations[r].required - SkillRecommendations[r].current >= gap
        /\ Len(GpaRecommendations) = IF UserGpa < MinGpa THEN 1 ELSE 0

\* preprocess_data has returned the normalized training data
Preprocessed == call.op = "preprocess_data" /\ Done /\ ret.value.ok

\* _prepare_features has returned the vector of a profile
Vectorized == call.op = "prepare_features" /\ Done /\ ret.value.ok

\* row i of the normalized training data, as a vector over its columns
TrainingVector(i) ==
    LET X == ret.value.value.X
    IN  [k \in 1..Len(X.columns) |-> X.rows[i][X.columns[k]]]

\* the inference vector holds gpa / 4.0 at the gpa feature, and its other
\* entries are those of the same profile with any other GPA
InferenceGpa ==
    Vectorized =>
        LET schema == feature_names.some
            vector == ret.value.value
        IN  \A k \in 1..Len(schema) :
                IF schema[k] = "gpa"
                    THEN vector[k] = RDiv(Dec(Get(call.user_profile, "gpa", 0)), Int2Rat(4))
                    ELSE \A gpa \in {0, 250, 400} :
                             vector[k] = prepare_features(feature_names,
                                             [c \in DOMAIN call.user_profile \cup {"gpa"} |->
                                                 IF c = "gpa" THEN gpa
                                                 ELSE call.user_profile[c]])[k]

\* every training row comes out of the preprocessing as the inference vector
\* of the profile it was made from, over the schema the preprocessing fixed
TrainedAsInferred ==
    Preprocessed =>
        LET schema == ret.value.value.feature_names
        IN  \A i \in 1..Len(call.df.rows) :
                \A p \in TrainingProfiles :
                    Without(call.df.rows[i], target_col) = ProfileCells(schema, p)
                        => TrainingVector(i) = prepare_features(Some(schema), p)

\* C29: GPA normalization puts gpa / 4.0 in the gpa feature and alters no
\* other feature column, in the inference-time feature builder and in the
\* training-time preprocessing alike, so that the inference vector of every
\* profile is normalized as the training rows are (scores / 100, gpa / 4,
\* ratings / 5).
C29_GpaNormalization == InferenceGpa /\ TrainedAsInferred

\* the /predict route has answered with a hybrid result list
Hybrid == Predicted /\ ret.value.method_used = "hybrid"

\* C30: in every hybrid result list, each entry whose career identifier is
\* in the catalog has rule_score equal to the match_score that
\* calculate_match_score gives the profile for it; a rule_score of 0 is
\* reported only for identifiers absent from the catalog or scored 0.
C30_RuleScore ==
    Hybrid =>
        \A i \in 1..Len(ret.value.recommendations) :
            LET entry == ret.value.recommendations[i]
            IN  /\ HasKey(careers, entry.career_id) =>
                       entry.rule_score
                           = calculate_match_score(careers, call.user_profile,
                                                   entry.career_id).match_score
                /\ entry.rule_score = 0 =>
                       \/ ~HasKey(careers, entry.career_id)
                       \/ calculate_match_score(careers, call.user_profile,
                                                 entry.career_id).match_score = 0

====
